---- MODULE Spec2Model ----
(***************************************************************************)
(* HuffStream: the Huffman codec (utils/huffman.py), the dual-channel      *)
(* transfer server (server/multi_server.py), the connection manager        *)
(* (utils/network_manager.py) and the sending client                       *)
(* (client/multi_client.py).                                               *)
(*                                                                         *)
(* Several specifications share the module:                                *)
(*   CodecSpec   one encode_data / decode_file run per input buffer;       *)
(*   Spec        the server's transfer registry, its control handlers and  *)
(*               its data handlers, one thread per connection;             *)
(*   ClientSpec  connect_to_server with its retries, and send_message /    *)
(*               receive_message on a socket;                              *)
(*   TreeSpec    CodecSpec with build_huffman_tree's loop running on;      *)
(*   AcceptSpec  the two accept loops, the live-connection list and stop;  *)
(*   StalledSpec the server under fair scheduling of its lock;             *)
(*   SenderSpec  send_file calls on one client.                            *)
(* Each specification leaves the others' variables at their initial value. *)
(***************************************************************************)
EXTENDS Integers, Sequences, FiniteSets, TLC

(* ------------------------------ bounds --------------------------------- *)

\* Distinct byte values an input buffer draws from (the code has 0..255).
NumSymbols == 3

\* Longest input buffer.
MaxLen == 6

Symbols == 0 .. (NumSymbols - 1)

RECURSIVE SeqsUpTo(_)
SeqsUpTo(n) ==
    IF n = 0 THEN {<<>>}
    ELSE LET S == SeqsUpTo(n - 1)
         IN S \cup {Append(s, c) : s \in {t \in S : Len(t) = n - 1}, c \in Symbols}

Inputs == SeqsUpTo(MaxLen)

(* ----------------------- Python values and dicts ----------------------- *)

\* HuffmanNode.char of an internal node (Python None).
NoChar == -1

\* A child that is None: nodes are held in an arena, a child is an index in it.
NoNode == 0

\* A dict is the sequence of its items in insertion order, keys distinct.
DictHas(m, k) == \E i \in 1 .. Len(m) : m[i].key = k

DictIndex(m, k) == CHOOSE i \in 1 .. Len(m) : m[i].key = k

DictGet(m, k) == LET at == DictIndex(m, k) IN m[at].val

\* m[k] = v: an existing key keeps its place, a new key goes last.
DictSet(m, k, v) ==
    IF DictHas(m, k)
    THEN [m EXCEPT ![DictIndex(m, k)] = [key |-> k, val |-> v]]
    ELSE Append(m, [key |-> k, val |-> v])

(* ------------------------------ Counter -------------------------------- *)

RECURSIVE CountOf(_, _)
CountOf(d, c) ==
    IF d = <<>> THEN 0
    ELSE (IF Head(d) = c THEN 1 ELSE 0) + CountOf(Tail(d), c)

RECURSIVE FirstSeen(_, _)
FirstSeen(d, seen) ==
    IF d = <<>> THEN seen
    ELSE FirstSeen(Tail(d),
                   IF \E i \in 1 .. Len(seen) : seen[i] = Head(d)
                   THEN seen ELSE Append(seen, Head(d)))

RECURSIVE CountEach(_, _)
CountEach(d, keys) ==
    IF keys = <<>> THEN <<>>
    ELSE <<[key |-> Head(keys), val |-> CountOf(d, Head(keys))]>>
         \o CountEach(d, Tail(keys))

\* Counter(data).items(): one (char, freq) per distinct byte, in order of first
\* occurrence.
Counter(d) == CountEach(d, FirstSeen(d, <<>>))

(* ---------------------------- HuffmanNode ------------------------------ *)

HuffmanNode(char, freq) ==
    [char |-> char, freq |-> freq, left |-> NoNode, right |-> NoNode]

\* HuffmanNode.__lt__ on two nodes of the arena.
NodeLt(nodes, a, b) == nodes[a].freq < nodes[b].freq

(* -------------------------------- heapq -------------------------------- *)
(* The heap is a list of arena indexes; positions are 0-based as in heapq, *)
(* element p of the list is heap[p + 1].                                   *)

RECURSIVE SiftdownLoop(_, _, _, _, _)
SiftdownLoop(nodes, heap, startpos, pos, newitem) ==
    IF pos > startpos
    THEN LET parentpos == (pos - 1) \div 2
             parent == heap[parentpos + 1]
         IN IF NodeLt(nodes, newitem, parent)
            THEN SiftdownLoop(nodes, [heap EXCEPT ![pos + 1] = parent],
                              startpos, parentpos, newitem)
            ELSE [heap EXCEPT ![pos + 1] = newitem]
    ELSE [heap EXCEPT ![pos + 1] = newitem]

Siftdown(nodes, heap, startpos, pos) ==
    SiftdownLoop(nodes, heap, startpos, pos, heap[pos + 1])

RECURSIVE SiftupLoop(_, _, _, _)
SiftupLoop(nodes, heap, pos, childpos) ==
    IF childpos < Len(heap)
    THEN LET rightpos == childpos + 1
             c == IF /\ rightpos < Len(heap)
                     /\ ~NodeLt(nodes, heap[childpos + 1], heap[rightpos + 1])
                  THEN rightpos ELSE childpos
         IN SiftupLoop(nodes, [heap EXCEPT ![pos + 1] = heap[c + 1]], c, 2 * c + 1)
    ELSE [heap |-> heap, pos |-> pos]

\* After the loop: heap[pos] = newitem; _siftdown(heap, startpos, pos).
SiftupEnd(nodes, r, startpos, newitem) ==
    Siftdown(nodes, [r.heap EXCEPT ![r.pos + 1] = newitem], startpos, r.pos)

Siftup(nodes, heap, pos) ==
    SiftupEnd(nodes, SiftupLoop(nodes, heap, pos, 2 * pos + 1), pos, heap[pos + 1])

RECURSIVE HeapifyFrom(_, _, _)
HeapifyFrom(nodes, heap, i) ==
    IF i < 0 THEN heap
    ELSE HeapifyFrom(nodes, Siftup(nodes, heap, i), i - 1)

Heapify(nodes, heap) == HeapifyFrom(nodes, heap, (Len(heap) \div 2) - 1)

Heappop(nodes, heap) ==
    LET lastelt == heap[Len(heap)]
        rest == SubSeq(heap, 1, Len(heap) - 1)
    IN IF rest /= <<>>
       THEN [item |-> rest[1],
             heap |-> Siftup(nodes, [rest EXCEPT ![1] = lastelt], 0)]
       ELSE [item |-> lastelt, heap |-> rest]

Heappush(nodes, heap, item) ==
    Siftdown(nodes, Append(heap, item), 0, Len(heap))

(* -------------------------- build_huffman_tree ------------------------- *)

\* A parent that takes the frequency of its left child alone.
InternalLeftFreq(nodes, left, right) ==
    [char |-> NoChar,
     freq |-> nodes[left].freq,
     left |-> left,
     right |-> right]

\* internal = HuffmanNode(None, left.freq + right.freq) with its two children.
Internal(nodes, left, right) ==
    [char |-> NoChar,
     freq |-> nodes[left].freq + nodes[right].freq,
     left |-> left,
     right |-> right]

\* heapq.heappush(priority_queue, internal), internal the arena's newest node.
PushInternal(nodes2, heap) ==
    [nodes |-> nodes2, pq |-> Heappush(nodes2, heap, Len(nodes2))]

\* right = heappop(...), then the parent of left and right is made and pushed.
MergeRight(nodes, left, p2) ==
    PushInternal(Append(nodes, Internal(nodes, left, p2.item)), p2.heap)

\* left = heappop(...), then the rest of the pass.
MergeLeft(nodes, p1) == MergeRight(nodes, p1.item, Heappop(nodes, p1.heap))

\* One pass of the while loop: pop two, push their parent.
MergeStep(nodes, pq) == MergeLeft(nodes, Heappop(nodes, pq))

\* return priority_queue[0] if priority_queue else None
TreeRoot(pq) == IF pq /= <<>> THEN pq[1] ELSE NoNode

\* [HuffmanNode(char, freq) for char, freq in frequency.items()]: the arena's
\* first nodes, and the list of their indexes.
RECURSIVE Leaves(_)
Leaves(frequency) ==
    IF frequency = <<>> THEN <<>>
    ELSE <<HuffmanNode(Head(frequency).key, Head(frequency).val)>>
         \o Leaves(Tail(frequency))

RECURSIVE Indexes(_)
Indexes(n) == IF n = 0 THEN <<>> ELSE Append(Indexes(n - 1), n)

\* priority_queue after heapq.heapify: the arena of leaves and the heap.
InitialQueue(leaves) ==
    [nodes |-> leaves, pq |-> Heapify(leaves, Indexes(Len(leaves)))]

(* ------------------------------ build_codes ---------------------------- *)

RECURSIVE build_codes_same_bit(_, _, _, _)
build_codes_same_bit(nodes, node, code, mapping) ==
    IF node = NoNode THEN mapping
    ELSE IF nodes[node].char /= NoChar
    THEN DictSet(mapping, nodes[node].char, IF code /= <<>> THEN code ELSE <<0>>)
    ELSE LET m1 == IF nodes[node].left /= NoNode
                   THEN build_codes_same_bit(nodes, nodes[node].left,
                                             Append(code, 0), mapping)
                   ELSE mapping
         IN IF nodes[node].right /= NoNode
            THEN build_codes_same_bit(nodes, nodes[node].right, code, m1)
            ELSE m1

RECURSIVE build_codes_no_special(_, _, _, _)
build_codes_no_special(nodes, node, code, mapping) ==
    IF node = NoNode THEN mapping
    ELSE IF nodes[node].char /= NoChar
    THEN DictSet(mapping, nodes[node].char, code)
    ELSE LET m1 == IF nodes[node].left /= NoNode
                   THEN build_codes_no_special(nodes, nodes[node].left,
                                               Append(code, 0), mapping)
                   ELSE mapping
         IN IF nodes[node].right /= NoNode
            THEN build_codes_no_special(nodes, nodes[node].right, Append(code, 1), m1)
            ELSE m1

RECURSIVE build_codes(_, _, _, _)
build_codes(nodes, node, code, mapping) ==
    IF node = NoNode THEN mapping
    ELSE IF nodes[node].char /= NoChar
    THEN DictSet(mapping, nodes[node].char, IF code /= <<>> THEN code ELSE <<0>>)
    ELSE LET m1 == IF nodes[node].left /= NoNode
                   THEN build_codes(nodes, nodes[node].left, Append(code, 0), mapping)
                   ELSE mapping
         IN IF nodes[node].right /= NoNode
            THEN build_codes(nodes, nodes[node].right, Append(code, 1), m1)
            ELSE m1

(* ----------------------------- huffman_encode -------------------------- *)

RECURSIVE ConcatCodesButLast(_, _)
ConcatCodesButLast(d, codes) ==
    IF Len(d) <= 1 THEN <<>>
    ELSE DictGet(codes, Head(d)) \o ConcatCodesButLast(Tail(d), codes)

\* The loop "for byte in data: encoded_data += codes[byte]".
RECURSIVE ConcatCodes(_, _)
ConcatCodes(d, codes) ==
    IF d = <<>> THEN <<>>
    ELSE DictGet(codes, Head(d)) \o ConcatCodes(Tail(d), codes)

\* {code: byte for byte, code in codes.items()}
RECURSIVE Invert(_, _)
Invert(items, acc) ==
    IF items = <<>> THEN acc
    ELSE Invert(Tail(items), DictSet(acc, Head(items).val, Head(items).key))

(* ----------------------------- huffman_decode -------------------------- *)

\* The for loop over the bits: the bytes emitted so far and current_code.
RECURSIVE DecodeLoop(_, _, _, _)
DecodeLoop(bits, reverse_mapping, decoded_data, current_code) ==
    IF bits = <<>>
    THEN [decoded_data |-> decoded_data, current_code |-> current_code]
    ELSE LET cc == Append(current_code, Head(bits))
         IN IF DictHas(reverse_mapping, cc)
            THEN DecodeLoop(Tail(bits), reverse_mapping,
                            Append(decoded_data, DictGet(reverse_mapping, cc)), <<>>)
            ELSE DecodeLoop(Tail(bits), reverse_mapping, decoded_data, cc)

\* What huffman_decode returns, and the local current_code it ends with. There is
\* no raise in the function: raised is what it does about a leftover code.
DecodeResult(r) ==
    [decoded_data |-> r.decoded_data, current_code |-> r.current_code, raised |-> FALSE]

huffman_decode(encoded_data, reverse_mapping) ==
    DecodeResult(DecodeLoop(encoded_data, reverse_mapping, <<>>, <<>>))

(* ------------------------- bit packing, unpacking ---------------------- *)

\* int(byte, 2) of a string of at most 8 bits.
RECURSIVE IntOfBits(_, _)
IntOfBits(bits, acc) ==
    IF bits = <<>> THEN acc ELSE IntOfBits(Tail(bits), 2 * acc + Head(bits))

\* format(byte, '08b').
RECURSIVE FormatBits(_, _)
FormatBits(n, width) ==
    IF width = 0 THEN <<>>
    ELSE Append(FormatBits(n \div 2, width - 1), n % 2)

RECURSIVE Zeros(_)
Zeros(n) == IF n = 0 THEN <<>> ELSE Append(Zeros(n - 1), 0)

\* The loop over range(0, len(padded_text), 8).
RECURSIVE PackBits(_)
PackBits(padded_text) ==
    IF padded_text = <<>> THEN <<>>
    ELSE LET n == IF Len(padded_text) < 8 THEN Len(padded_text) ELSE 8
         IN <<IntOfBits(SubSeq(padded_text, 1, n), 0)>>
            \o PackBits(SubSeq(padded_text, n + 1, Len(padded_text)))

RECURSIVE UnpackBytes(_)
UnpackBytes(encoded_bytes) ==
    IF encoded_bytes = <<>> THEN <<>>
    ELSE FormatBits(Head(encoded_bytes), 8) \o UnpackBytes(Tail(encoded_bytes))

(* ------------------------------ encode_data ---------------------------- *)

PaddingAlways8Minus(encoded_text) == 8 - (Len(encoded_text) % 8)

\* padding = 8 - (len(encoded_text) % 8) if len(encoded_text) % 8 != 0 else 0
Padding(encoded_text) ==
    IF Len(encoded_text) % 8 /= 0 THEN 8 - (Len(encoded_text) % 8) ELSE 0

(* ------------------------------ decode_file ---------------------------- *)

\* binary_string[:-padding] if padding > 0 else binary_string
StripPadding(binary_string, padding) ==
    IF padding > 0
    THEN SubSeq(binary_string, 1,
                IF Len(binary_string) > padding THEN Len(binary_string) - padding ELSE 0)
    ELSE binary_string

decode_file(metadata, encoded_bytes) ==
    huffman_decode(StripPadding(UnpackBytes(encoded_bytes), metadata.padding),
                   metadata.reverse_mapping)

(* ======================================================================= *)
(* CodecSpec: one input buffer goes through encode_data (huffman_encode,   *)
(* build_huffman_tree pass by pass, build_codes, the packing), the payload *)
(* is stored or sent, whole or cut short, and decode_file decodes it.      *)
(* ======================================================================= *)

VARIABLES
    data,       \* the input buffer
    cpc,        \* where the run is: "off", "input", "merge", "codes", "bits",
                \* "pack", "encode_raised", "encoded", "decoded"
    enc,        \* the locals of encode_data and of the functions it calls
    payload,    \* the payload to decode: the metadata and the packed bytes
    truncated,  \* the payload lost a tail of its packed bytes on the way
    dec         \* what decode_file's call of huffman_decode gave

codecVars == <<data, cpc, enc, payload, truncated, dec>>

VARIABLES
    transfers,  \* self.transfers: transfer id -> record
    lock,       \* the thread that holds self.transfers_lock
    ctl,        \* the control handler threads
    dat,        \* the data handler threads
    running     \* ConnectionManager.running: the accept loops go on while it holds

serverVars == <<transfers, lock, ctl, dat, running>>

VARIABLES
    cli,        \* a client's ConnectionManager in connect_to_server
    io          \* one call of send_message or receive_message

clientVars == <<cli, io>>

VARIABLES
    acc,          \* the two _accept_connections threads
    connections,  \* self.connections
    held,         \* the threading.Lock objects that are held
    stp           \* the call of stop, and the sockets that are open

acceptVars == <<acc, connections, held, stp>>

VARIABLES
    snd           \* a HuffStreamClient and its send_file calls

senderVars == <<snd>>

vars ==
    <<data, cpc, enc, payload, truncated, dec, transfers, lock, ctl, dat, running, cli, io,
      acc, connections, held, stp, snd>>

\* What a step of the server, of the codec, of the client leaves alone.
besideServer == <<codecVars, clientVars, acceptVars, senderVars>>
besideCodec == <<serverVars, clientVars, acceptVars, senderVars>>
besideClient == <<codecVars, serverVars, acceptVars, senderVars>>
besideAccept == <<codecVars, clientVars, transfers, lock, ctl, dat, senderVars>>
besideSender == <<codecVars, serverVars, clientVars, acceptVars>>

NoLocals ==
    [nodes |-> <<>>, pq |-> <<>>, root |-> NoNode, codes |-> <<>>,
     encoded_data |-> <<>>, reverse_mapping |-> <<>>,
     padding |-> 0, padded_text |-> <<>>, encoded_bytes |-> <<>>]

NoPayload == [metadata |-> [padding |-> 0, original_size |-> 0, reverse_mapping |-> <<>>],
              encoded_bytes |-> <<>>]

NoResult == [decoded_data |-> <<>>, current_code |-> <<>>, raised |-> FALSE]

CodecOff ==
    /\ data = <<>>
    /\ cpc = "off"
    /\ enc = NoLocals
    /\ payload = NoPayload
    /\ truncated = FALSE
    /\ dec = NoResult

CodecInit ==
    /\ data \in Inputs
    /\ cpc = "input"
    /\ enc = NoLocals
    /\ payload = NoPayload
    /\ truncated = FALSE
    /\ dec = NoResult

\* huffman_encode(b""): "if not data: return "", {}, {}".
EncodeEmpty ==
    /\ cpc = "input"
    /\ data = <<>>
    /\ cpc' = "pack"
    /\ UNCHANGED <<data, enc, payload, truncated, dec>>
    /\ UNCHANGED besideCodec

\* build_huffman_tree up to the loop: the Counter, the leaves, heapify.
TreeStart(d, e) ==
    [e EXCEPT !.nodes = Leaves(Counter(d)),
              !.pq = InitialQueue(Leaves(Counter(d))).pq]

BuildQueue ==
    /\ cpc = "input"
    /\ data /= <<>>
    /\ enc' = TreeStart(data, enc)
    /\ cpc' = "merge"
    /\ UNCHANGED <<data, payload, truncated, dec>>
    /\ UNCHANGED besideCodec

TreeMerge(e, s) == [e EXCEPT !.nodes = s.nodes, !.pq = s.pq]

\* One pass of "while len(priority_queue) > 1".
MergePass ==
    /\ cpc = "merge"
    /\ Len(enc.pq) > 1
    /\ enc' = TreeMerge(enc, MergeStep(enc.nodes, enc.pq))
    /\ UNCHANGED <<data, cpc, payload, truncated, dec>>
    /\ UNCHANGED besideCodec

\* The loop ends; build_huffman_tree returns the root and build_codes(root)
\* makes the table.
BuildCodes ==
    /\ cpc = "merge"
    /\ Len(enc.pq) <= 1
    /\ enc' = [enc EXCEPT !.root = TreeRoot(enc.pq),
                          !.codes = build_codes(enc.nodes, TreeRoot(enc.pq), <<>>, <<>>)]
    /\ cpc' = "codes"
    /\ UNCHANGED <<data, payload, truncated, dec>>
    /\ UNCHANGED besideCodec

\* The rest of huffman_encode: the codes of the bytes in order, the inverse table.
EncodeBits ==
    /\ cpc = "codes"
    /\ enc' = [enc EXCEPT !.encoded_data = ConcatCodes(data, enc.codes),
                          !.reverse_mapping = Invert(enc.codes, <<>>)]
    /\ cpc' = "pack"
    /\ UNCHANGED <<data, payload, truncated, dec>>
    /\ UNCHANGED besideCodec

\* padded_text and the bytes packed from it.
PadAndPack(e, padding) ==
    [e EXCEPT !.padding = padding,
              !.padded_text = e.encoded_data \o Zeros(padding),
              !.encoded_bytes = PackBits(e.encoded_data \o Zeros(padding))]

Metadata(e, d) ==
    [padding |-> e.padding, original_size |-> Len(d), reverse_mapping |-> e.reverse_mapping]

\* compression_ratio = (original_size - compressed_size) / original_size * 100
\* raises ZeroDivisionError when original_size is 0.
RatioRaises(d) == Len(d) = 0

\* encode_data after huffman_encode: padding, packing, the metadata pickled into
\* memory_file followed by the bytes, the ratio, the return (or the raise).
Pack ==
    /\ cpc = "pack"
    /\ enc' = PadAndPack(enc, Padding(enc.encoded_data))
    /\ IF RatioRaises(data)
       THEN /\ cpc' = "encode_raised"
            /\ UNCHANGED payload
       ELSE /\ cpc' = "encoded"
            /\ payload' = [metadata |-> Metadata(enc', data),
                           encoded_bytes |-> enc'.encoded_bytes]
    /\ UNCHANGED <<data, truncated, dec>>
    /\ UNCHANGED besideCodec

\* The receive loop ends on a closed stream with fewer bytes than were sent, and
\* the file is decoded as it is (receive_encoded_file).
ShortRead ==
    /\ cpc = "encoded"
    /\ ~truncated
    /\ \E n \in 0 .. (Len(payload.encoded_bytes) - 1) :
          payload' = [payload EXCEPT !.encoded_bytes = SubSeq(@, 1, n)]
    /\ truncated' = TRUE
    /\ UNCHANGED <<data, cpc, enc, dec>>
    /\ UNCHANGED besideCodec

\* decode_file on the payload.
Decode ==
    /\ cpc = "encoded"
    /\ dec' = decode_file(payload.metadata, payload.encoded_bytes)
    /\ cpc' = "decoded"
    /\ UNCHANGED <<data, enc, payload, truncated>>
    /\ UNCHANGED besideCodec

CodecNext ==
    \/ EncodeEmpty
    \/ BuildQueue
    \/ MergePass
    \/ BuildCodes
    \/ EncodeBits
    \/ Pack
    \/ ShortRead
    \/ Decode


(* ----------------------- properties of the codec ----------------------- *)

IsPrefix(a, b) == Len(a) <= Len(b) /\ SubSeq(b, 1, Len(a)) = a

DistinctSymbols(d) == {d[i] : i \in 1 .. Len(d)}

RECURSIVE SumCodeLengths(_, _)
SumCodeLengths(d, codes) ==
    IF d = <<>> THEN 0
    ELSE Len(DictGet(codes, Head(d))) + SumCodeLengths(Tail(d), codes)

\* build_codes has run.
HasCodes == cpc \in {"codes", "pack", "encoded", "decoded"} /\ data /= <<>>

\* encode_data has computed padding and the packed bytes.
HasPacked == cpc \in {"encode_raised", "encoded", "decoded"}

\* encode_data has returned a payload.
HasPayload == cpc \in {"encoded", "decoded"}

\* C1 as stated: for every input buffer, the empty one included, encode_data
\* returns a payload and decode_file of that payload (as returned, not cut short)
\* gives back exactly the input.
C1_RoundTripEveryInput ==
    /\ cpc /= "encode_raised"
    /\ (cpc = "decoded" /\ ~truncated) => dec.decoded_data = data

\* The round trip on the inputs encode_data returns a payload for.
RoundTripWhenEncoded ==
    (cpc = "decoded" /\ ~truncated) => dec.decoded_data = data

\* C2: for an input with at least two distinct symbols, the table build_codes
\* makes has one code per distinct symbol and no symbol's code is a prefix of, or
\* equal to, another symbol's code.
C2_PrefixFree ==
    (HasCodes /\ Cardinality(DistinctSymbols(data)) >= 2) =>
        /\ {enc.codes[i].key : i \in 1 .. Len(enc.codes)} = DistinctSymbols(data)
        /\ Len(enc.codes) = Cardinality(DistinctSymbols(data))
        /\ \A i, j \in 1 .. Len(enc.codes) :
              i /= j => ~IsPrefix(enc.codes[i].val, enc.codes[j].val)

\* Three symbols, codes of two different lengths.
C2_Witness ==
    /\ cpc = "codes"
    /\ Len(enc.codes) = 3
    /\ \E i, j \in 1 .. 3 : Len(enc.codes[i].val) < Len(enc.codes[j].val)

\* C3 as stated: encode_data never raises, whatever the input; for the empty
\* input it returns a payload with no packed bits, and decoding it gives the
\* empty buffer.
C3_EmptyInputEncodes ==
    /\ cpc /= "encode_raised"
    /\ (data = <<>> /\ HasPayload) => payload.encoded_bytes = <<>>
    /\ (data = <<>> /\ cpc = "decoded") => dec.decoded_data = <<>>

\* C4 as stated: when the bits run out while a non-empty partial code that
\* matches no table entry remains, decode raises instead of returning.
C4_LeftoverCodeRaises ==
    (cpc = "decoded" /\ dec.current_code /= <<>>) => dec.raised

\* C5: the padding count is in 0..7, equals (8 - bitlength mod 8) mod 8, is 0
\* exactly when the bit length is a multiple of 8, is the count written to the
\* metadata, and the packed bytes end in that many zero bits after the codes.
C5_Padding ==
    HasPacked =>
        /\ enc.padding \in 0 .. 7
        /\ enc.padding = (8 - (Len(enc.encoded_data) % 8)) % 8
        /\ (enc.padding = 0) <=> (Len(enc.encoded_data) % 8 = 0)
        /\ UnpackBytes(enc.encoded_bytes) = enc.encoded_data \o Zeros(enc.padding)
        /\ (HasPayload => payload.metadata.padding = enc.padding)

\* A bit length that is a non-zero multiple of 8: no padding.
C5_Witness ==
    /\ cpc = "encoded"
    /\ Len(enc.encoded_data) = 8
    /\ enc.padding = 0
    /\ payload.metadata.padding = 0

\* C6: in every payload encode_data returns, 8 * len(packed bytes) - padding is
\* the sum of the code lengths of the input's bytes.
C6_BitLength ==
    (HasPayload /\ ~truncated) =>
        Len(payload.encoded_bytes) * 8 - payload.metadata.padding
            = SumCodeLengths(data, enc.codes)

\* A payload of two bytes, the second one padded.
C6_Witness ==
    /\ cpc = "encoded"
    /\ ~truncated
    /\ Len(payload.encoded_bytes) = 2
    /\ payload.metadata.padding > 0
    /\ Cardinality(DistinctSymbols(data)) = 3

SingleSymbol(d) == d /= <<>> /\ \A i \in 1 .. Len(d) : d[i] = d[1]

\* C7: for n >= 1 bytes of one value the tree is a single leaf, the symbol's code
\* is "0", the bit length is n, the padding is (8 - n mod 8) mod 8 (3 for n = 5)
\* and decode gives the n bytes back.
C7_SingleSymbol ==
    SingleSymbol(data) =>
        /\ HasCodes =>
              /\ enc.nodes = <<HuffmanNode(data[1], Len(data))>>
              /\ enc.root = 1
              /\ enc.codes = <<[key |-> data[1], val |-> <<0>>]>>
        /\ HasPayload =>
              /\ Len(enc.encoded_data) = Len(data)
              /\ payload.metadata.padding = (8 - (Len(data) % 8)) % 8
              /\ Len(data) = 5 => payload.metadata.padding = 3
        /\ (cpc = "decoded" /\ ~truncated) => dec.decoded_data = data

\* Scenario A: five equal bytes, encoded and decoded.
C7_Witness ==
    /\ data = <<0, 0, 0, 0, 0>>
    /\ cpc = "decoded"
    /\ ~truncated
    /\ payload.metadata.padding = 3
    /\ dec.decoded_data = data

(* ======================================================================= *)
(* Spec: the dual-channel server (server/multi_server.py). One thread per  *)
(* accepted connection runs handle_control_connection or                   *)
(* handle_data_connection; all of them share self.transfers under          *)
(* self.transfers_lock.                                                    *)
(* ======================================================================= *)

\* Transfer ids the peers use.
NumIds == 2

\* Control connections the server accepts.
NumCtl == 1

\* Frames a peer sends on one control connection.
MaxFrames == 3

\* Data connections the server accepts.
NumData == 2

\* Largest declared filesize.
MaxSize == 1

\* Most bytes one receive_message call returns.
MaxChunk == 2

Ids == 1 .. NumIds
CtlIds == 1 .. NumCtl
DataIds == 1 .. NumData

\* control_msg.get(...) of a key the command does not carry.
NoId == 0

\* The files peers announce in prepare: an empty one, and one of MaxSize bytes that
\* is named with a directory.
Files ==
    {[filename |-> "a_encoded.txt", filesize |-> 0],
     [filename |-> "d/b_encoded.txt", filesize |-> MaxSize]}

\* os.path.basename on the names above.
Basename(filename) ==
    CASE filename = "d/b_encoded.txt" -> "b_encoded.txt"
      [] OTHER -> filename

\* os.path.join(self.save_dir, os.path.basename(filename)), as a path relative to
\* save_dir.
DestPath(filename) == Basename(filename)

\* decode_received_file's decoded_path: base_name.replace('_encoded', '_decoded')
\* + ext, in the directory of the encoded file.
DecodedPath(dest_path) ==
    CASE dest_path = "a_encoded.txt" -> "a_decoded.txt"
      [] dest_path = "b_encoded.txt" -> "b_decoded.txt"
      [] OTHER -> dest_path

\* A record without the key 'decoded_path'; a local that holds None.
NoPath == ""

Free == <<"free", 0>>
CtlThread(c) == <<"ctl", c>>
DataThread(d) == <<"data", d>>

(* ----------------------------- the registry ---------------------------- *)

\* The record prepare stores.
PreparedRecord(filename, filesize) ==
    [filename |-> filename,
     filesize |-> filesize,
     status |-> "prepared",
     dest_path |-> DestPath(filename),
     decoded_path |-> NoPath]

\* A put that keeps the record an id already has.
RegistryPutIfAbsent(reg, id, rec) == reg @@ (id :> rec)

\* self.transfers[transfer_id] = {...}
RegistryPut(reg, id, rec) == (id :> rec) @@ reg

\* A lookup that finds no record.
StatusOfNothing(reg, id) == "unknown"

\* The status command's lookup.
StatusOf(reg, id) == IF id \in DOMAIN reg THEN reg[id].status ELSE "unknown"

\* A status write that leaves a cancelled record as it is.
SetStatusUnlessCancelled(reg, id, status) ==
    IF reg[id].status = "cancelled" THEN reg ELSE [reg EXCEPT ![id].status = status]

\* self.transfers[transfer_id]['status'] = status
SetStatus(reg, id, status) == [reg EXCEPT ![id].status = status]

\* A cancel that spares a transfer once its data connection has shaken hands.
CancelInIfPrepared(reg, id) ==
    IF id \in DOMAIN reg /\ reg[id].status = "prepared"
    THEN SetStatus(reg, id, "cancelled")
    ELSE reg

\* The cancel command's guarded write.
CancelIn(reg, id) == IF id \in DOMAIN reg THEN SetStatus(reg, id, "cancelled") ELSE reg

(* ------------------------- control connections ------------------------- *)

NoCmd == [command |-> "", transfer_id |-> NoId, filename |-> "", filesize |-> 0]
NoReply == [status |-> "", transfer_id |-> NoId]

\* The frames a peer sends that json.loads parses and a branch handles.
Commands ==
    {[command |-> "prepare", transfer_id |-> id, filename |-> f.filename,
      filesize |-> f.filesize] : id \in Ids, f \in Files}
    \cup {[command |-> k, transfer_id |-> id, filename |-> "", filesize |-> 0] :
            k \in {"status", "cancel"}, id \in Ids}

\* prior: the status the command found under the lock ("unknown": no record). The
\* status branch holds it in its local `status`; it is kept for all three.
\* frames: the frames received on the connection so far; commands: those of them
\* that a branch handles; replied: the responses sent on it.
CtlFresh ==
    [pc |-> "recv", cmd |-> NoCmd, reply |-> NoReply, prior |-> "", frames |-> 0,
     commands |-> 0, replied |-> 0]
CtlIdle == [CtlFresh EXCEPT !.pc = "idle"]

\* An accept loop that a failed TLS handshake ends.
CtlAcceptFailedStops(c) ==
    /\ running
    /\ ctl[c].pc = "idle"
    /\ ctl' = [ctl EXCEPT ![c].pc = "closed"]
    /\ running' = FALSE
    /\ UNCHANGED <<transfers, lock, dat>>
    /\ UNCHANGED besideServer

\* _accept_connections, control port: ssl_context.wrap_socket raises ssl.SSLError
\* on the accepted socket, which is closed; the loop continues and no handler
\* is started.
CtlAcceptFailed(c) ==
    /\ running
    /\ ctl[c].pc = "idle"
    /\ ctl' = [ctl EXCEPT ![c].pc = "closed"]
    /\ UNCHANGED <<transfers, lock, dat>>
    /\ UNCHANGED <<running, besideServer>>

\* _accept_connections starts handle_control_connection on a new connection.
CtlAccept(c) ==
    /\ running
    /\ ctl[c].pc = "idle"
    /\ ctl' = [ctl EXCEPT ![c] = CtlFresh]
    /\ UNCHANGED <<transfers, lock, dat>>
    /\ UNCHANGED <<running, besideServer>>

\* receive_message returns a frame that parses to a prepare, status or cancel.
CtlRecvCommand(c) ==
    /\ ctl[c].pc = "recv"
    /\ ctl[c].frames < MaxFrames
    /\ \E cmd \in Commands :
          ctl' = [ctl EXCEPT ![c].pc = "parsed", ![c].cmd = cmd, ![c].frames = @ + 1,
                             ![c].commands = @ + 1]
    /\ UNCHANGED <<transfers, lock, dat>>
    /\ UNCHANGED <<running, besideServer>>

\* A frame that is not JSON (the inner except prints) or whose command is none of
\* the three (no branch): the loop goes on to the next receive.
CtlRecvUnhandled(c) ==
    /\ ctl[c].pc = "recv"
    /\ ctl[c].frames < MaxFrames
    /\ ctl' = [ctl EXCEPT ![c].frames = @ + 1]
    /\ UNCHANGED <<transfers, lock, dat>>
    /\ UNCHANGED <<running, besideServer>>

\* receive_message returns None (closed stream, socket error), or handling a
\* frame raises: the loop ends and the finally clause closes the socket.
CtlRecvClosed(c) ==
    /\ ctl[c].pc = "recv"
    /\ ctl' = [ctl EXCEPT ![c].pc = "closed"]
    /\ UNCHANGED <<transfers, lock, dat>>
    /\ UNCHANGED <<running, besideServer>>

\* with self.transfers_lock: entered.
CtlAcquire(c) ==
    /\ ctl[c].pc = "parsed"
    /\ lock = Free
    /\ lock' = CtlThread(c)
    /\ ctl' = [ctl EXCEPT ![c].pc = "locked"]
    /\ UNCHANGED <<transfers, dat>>
    /\ UNCHANGED <<running, besideServer>>

\* A response that does not carry the command's transfer id.
CtlDoneNoId(c, status) ==
    /\ lock' = Free
    /\ ctl' = [ctl EXCEPT ![c].pc = "reply",
                          ![c].prior = StatusOf(transfers, ctl[c].cmd.transfer_id),
                          ![c].reply = [status |-> status, transfer_id |-> NoId]]
    /\ UNCHANGED dat
    /\ UNCHANGED <<running, besideServer>>

\* The body of a command's with block, its exit, and the response built after it.
CtlDone(c, status) ==
    /\ lock' = Free
    /\ ctl' = [ctl EXCEPT ![c].pc = "reply",
                          ![c].prior = StatusOf(transfers, ctl[c].cmd.transfer_id),
                          ![c].reply = [status |-> status,
                                        transfer_id |-> ctl[c].cmd.transfer_id]]
    /\ UNCHANGED dat
    /\ UNCHANGED <<running, besideServer>>

CtlPrepare(c) ==
    /\ ctl[c].pc = "locked"
    /\ ctl[c].cmd.command = "prepare"
    /\ transfers' = RegistryPut(transfers, ctl[c].cmd.transfer_id,
                                PreparedRecord(ctl[c].cmd.filename, ctl[c].cmd.filesize))
    /\ CtlDone(c, "ready")

CtlStatus(c) ==
    /\ ctl[c].pc = "locked"
    /\ ctl[c].cmd.command = "status"
    /\ UNCHANGED transfers
    /\ CtlDone(c, StatusOf(transfers, ctl[c].cmd.transfer_id))

\* A cancel that records an id it does not find, as cancelled.
CtlCancelCreates(c) ==
    /\ ctl[c].pc = "locked"
    /\ ctl[c].cmd.command = "cancel"
    /\ transfers' = IF ctl[c].cmd.transfer_id \in DOMAIN transfers
                    THEN CancelIn(transfers, ctl[c].cmd.transfer_id)
                    ELSE RegistryPut(transfers, ctl[c].cmd.transfer_id,
                                     [PreparedRecord("", 0) EXCEPT !.status = "cancelled"])
    /\ CtlDone(c, "cancelled")

\* "elif command == 'cancel':" the guarded write, and the acknowledgment.
CtlCancel(c) ==
    /\ ctl[c].pc = "locked"
    /\ ctl[c].cmd.command = "cancel"
    /\ transfers' = CancelIn(transfers, ctl[c].cmd.transfer_id)
    /\ CtlDone(c, "cancelled")

\* send_message(client_socket, json.dumps(response)); back to the receive.
CtlSend(c) ==
    /\ ctl[c].pc = "reply"
    /\ ctl' = [ctl EXCEPT ![c] = [CtlFresh EXCEPT !.frames = ctl[c].frames,
                                                 !.commands = ctl[c].commands,
                                                 !.replied = ctl[c].replied + 1]]
    /\ UNCHANGED <<transfers, lock, dat>>
    /\ UNCHANGED <<running, besideServer>>

(* --------------------------- data connections -------------------------- *)

DataFresh ==
    [pc |-> "recv_meta", transfer_id |-> NoId, dest_path |-> NoPath, filesize |-> 0,
     received |-> 0, sent |-> <<>>, decoded_file_path |-> NoPath]
DataIdle == [DataFresh EXCEPT !.pc = "idle"]

\* _accept_connections, data port: ssl_context.wrap_socket raises ssl.SSLError on
\* the accepted socket, which is closed; the loop continues and no handler is
\* started.
DataAcceptFailed(d) ==
    /\ running
    /\ dat[d].pc = "idle"
    /\ dat' = [dat EXCEPT ![d].pc = "closed"]
    /\ UNCHANGED <<transfers, lock, ctl>>
    /\ UNCHANGED <<running, besideServer>>

\* _accept_connections starts handle_data_connection on a new connection.
DataAccept(d) ==
    /\ running
    /\ dat[d].pc = "idle"
    /\ dat' = [dat EXCEPT ![d] = DataFresh]
    /\ UNCHANGED <<transfers, lock, ctl>>
    /\ UNCHANGED <<running, besideServer>>

\* The first frame parses; transfer_id = metadata.get('transfer_id').
DataRecvMeta(d) ==
    /\ dat[d].pc = "recv_meta"
    /\ \E id \in Ids : dat' = [dat EXCEPT ![d].pc = "meta", ![d].transfer_id = id]
    /\ UNCHANGED <<transfers, lock, ctl>>
    /\ UNCHANGED <<running, besideServer>>

\* No first frame (receive_message returns None) or one that is not JSON: the
\* handler returns and the finally clause closes the socket.
DataNoMeta(d) ==
    /\ dat[d].pc = "recv_meta"
    /\ dat' = [dat EXCEPT ![d].pc = "closed"]
    /\ UNCHANGED <<transfers, lock, ctl>>
    /\ UNCHANGED <<running, besideServer>>

\* The pc inside the with block a handler enters from pc.
Enters(pc) ==
    CASE pc = "meta" -> "check"
      [] pc = "got_all" -> "mark_received"
      [] pc = "decode_done" -> "mark_decoded"
      [] pc = "short" -> "mark_incomplete"

\* A with block entered without waiting for the lock to be free.
DataAcquireNoWait(d) ==
    /\ dat[d].pc \in {"meta", "got_all", "decode_done", "short"}
    /\ lock' = DataThread(d)
    /\ dat' = [dat EXCEPT ![d].pc = Enters(dat[d].pc)]
    /\ UNCHANGED <<transfers, ctl>>
    /\ UNCHANGED <<running, besideServer>>

\* with self.transfers_lock: entered.
DataAcquire(d) ==
    /\ dat[d].pc \in {"meta", "got_all", "decode_done", "short"}
    /\ lock = Free
    /\ lock' = DataThread(d)
    /\ dat' = [dat EXCEPT ![d].pc = Enters(dat[d].pc)]
    /\ UNCHANGED <<transfers, ctl>>
    /\ UNCHANGED <<running, besideServer>>

\* An unknown id answered with an error frame before the connection closes.
DataUnknownIdAnswered(d) ==
    /\ dat[d].pc = "check"
    /\ dat[d].transfer_id \notin DOMAIN transfers
    /\ lock' = Free
    /\ dat' = [dat EXCEPT ![d].pc = "closed", ![d].sent = Append(@, "ERROR")]
    /\ UNCHANGED <<transfers, ctl>>
    /\ UNCHANGED <<running, besideServer>>

\* "if transfer_id not in self.transfers: return": nothing is sent.
DataUnknownId(d) ==
    /\ dat[d].pc = "check"
    /\ dat[d].transfer_id \notin DOMAIN transfers
    /\ lock' = Free
    /\ dat' = [dat EXCEPT ![d].pc = "closed"]
    /\ UNCHANGED <<transfers, ctl>>
    /\ UNCHANGED <<running, besideServer>>

\* A handshake that leaves the status as it finds it.
DataHandshakeNoMark(d) ==
    /\ dat[d].pc = "check"
    /\ dat[d].transfer_id \in DOMAIN transfers
    /\ lock' = Free
    /\ dat' = [dat EXCEPT ![d].pc = "ready",
                          ![d].dest_path = transfers[dat[d].transfer_id].dest_path,
                          ![d].filesize = transfers[dat[d].transfer_id].filesize]
    /\ UNCHANGED <<transfers, ctl>>
    /\ UNCHANGED <<running, besideServer>>

\* The handshake on a registered id: dest_path and filesize are copied to locals,
\* the status becomes 'receiving'.
DataHandshake(d) ==
    /\ dat[d].pc = "check"
    /\ dat[d].transfer_id \in DOMAIN transfers
    /\ transfers' = SetStatus(transfers, dat[d].transfer_id, "receiving")
    /\ lock' = Free
    /\ dat' = [dat EXCEPT ![d].pc = "ready",
                          ![d].dest_path = transfers[dat[d].transfer_id].dest_path,
                          ![d].filesize = transfers[dat[d].transfer_id].filesize]
    /\ UNCHANGED ctl
    /\ UNCHANGED <<running, besideServer>>

\* send_message(client_socket, frame), then the handler goes on to pc.
DataSend(d, frame, pc) ==
    /\ dat' = [dat EXCEPT ![d].pc = pc, ![d].sent = Append(@, frame)]
    /\ UNCHANGED <<transfers, lock, ctl>>
    /\ UNCHANGED <<running, besideServer>>

DataSendReady(d) ==
    /\ dat[d].pc = "ready"
    /\ DataSend(d, "READY", "open")

\* open(dest_path, 'wb'): the file opens, or open raises and the outer except and
\* finally clauses end the handler.
DataOpen(d) ==
    /\ dat[d].pc = "open"
    /\ \E opened \in BOOLEAN :
          dat' = [dat EXCEPT ![d].pc = IF opened THEN "loop" ELSE "closed"]
    /\ UNCHANGED <<transfers, lock, ctl>>
    /\ UNCHANGED <<running, besideServer>>

\* In the loop, received < filesize: receive_message returns n bytes.
DataRecvChunk(d) ==
    /\ dat[d].pc = "loop"
    /\ dat[d].received < dat[d].filesize
    /\ \E n \in 1 .. MaxChunk : dat' = [dat EXCEPT ![d].received = @ + n]
    /\ UNCHANGED <<transfers, lock, ctl>>
    /\ UNCHANGED <<running, besideServer>>

\* A handler that takes every end of the loop for a full file.
AfterLoopAlwaysAll(received, filesize) == "got_all"

\* Where the handler goes after the loop: "if received == filesize".
AfterLoop(received, filesize) == IF received = filesize THEN "got_all" ELSE "short"

\* In the loop, received < filesize: receive_message returns None, break.
DataRecvEnd(d) ==
    /\ dat[d].pc = "loop"
    /\ dat[d].received < dat[d].filesize
    /\ dat' = [dat EXCEPT ![d].pc = AfterLoop(dat[d].received, dat[d].filesize)]
    /\ UNCHANGED <<transfers, lock, ctl>>
    /\ UNCHANGED <<running, besideServer>>

\* The loop condition received < filesize is false.
DataLoopExit(d) ==
    /\ dat[d].pc = "loop"
    /\ ~(dat[d].received < dat[d].filesize)
    /\ dat' = [dat EXCEPT ![d].pc = AfterLoop(dat[d].received, dat[d].filesize)]
    /\ UNCHANGED <<transfers, lock, ctl>>
    /\ UNCHANGED <<running, besideServer>>

\* A status write whose with block is still held when the handler goes on.
DataMarkKeepsLock(d, reg, pc) ==
    /\ transfers' = reg
    /\ dat' = [dat EXCEPT ![d].pc = pc]
    /\ UNCHANGED <<lock, ctl>>
    /\ UNCHANGED <<running, besideServer>>

\* A with block of the data handler that writes one status and leaves for pc.
DataMark(d, reg, pc) ==
    /\ transfers' = reg
    /\ lock' = Free
    /\ dat' = [dat EXCEPT ![d].pc = pc]
    /\ UNCHANGED ctl
    /\ UNCHANGED <<running, besideServer>>

\* A handler that goes to the decode without writing 'received'.
DataMarkReceivedSkipped(d) ==
    /\ dat[d].pc = "mark_received"
    /\ DataMark(d, transfers, "decode")

DataMarkReceived(d) ==
    /\ dat[d].pc = "mark_received"
    /\ DataMark(d, SetStatus(transfers, dat[d].transfer_id, "received"), "decode")

\* decode_received_file(dest_path): the decode script runs in a subprocess; its
\* return code decides between decoded_path and None.
DataDecode(d) ==
    /\ dat[d].pc = "decode"
    /\ \E ok \in BOOLEAN :
          dat' = [dat EXCEPT ![d].pc = "decode_done",
                             ![d].decoded_file_path =
                                 IF ok THEN DecodedPath(dat[d].dest_path) ELSE NoPath]
    /\ UNCHANGED <<transfers, lock, ctl>>
    /\ UNCHANGED <<running, besideServer>>

\* An outcome that drops the record of a transfer whose decode failed.
DecodeOutcomeDropsFailed(reg, id, decoded_file_path) ==
    IF decoded_file_path /= NoPath
    THEN [reg EXCEPT ![id].status = "decoded", ![id].decoded_path = decoded_file_path]
    ELSE [other \in DOMAIN reg \ {id} |-> reg[other]]

\* "if decoded_file_path:" 'decoded' with the path, else 'decode_failed'.
DecodeOutcome(reg, id, decoded_file_path) ==
    IF decoded_file_path /= NoPath
    THEN [reg EXCEPT ![id].status = "decoded", ![id].decoded_path = decoded_file_path]
    ELSE SetStatus(reg, id, "decode_failed")

DataMarkDecoded(d) ==
    /\ dat[d].pc = "mark_decoded"
    /\ DataMark(d, DecodeOutcome(transfers, dat[d].transfer_id, dat[d].decoded_file_path),
                "complete")

DataSendComplete(d) ==
    /\ dat[d].pc = "complete"
    /\ DataSend(d, "COMPLETE", "closed")

DataMarkIncomplete(d) ==
    /\ dat[d].pc = "mark_incomplete"
    /\ DataMark(d, SetStatus(transfers, dat[d].transfer_id, "incomplete"), "incomplete")

DataSendIncomplete(d) ==
    /\ dat[d].pc = "incomplete"
    /\ DataSend(d, "INCOMPLETE", "closed")

(* ======================================================================= *)
(* The dial side of utils/network_manager.py: connect_to_server and           *)
(* _connect_socket.                                                           *)
(* ======================================================================= *)

\* Largest RETRY_ATTEMPTS a client is configured with.
MaxAttempts == 3

\* What _connect_socket gives back: None, the TCP socket, or the socket
\* ssl_context.wrap_socket made of it.
NoSocket == "None"
PlainSocket == "socket"
TlsSocket == "SSLSocket"

\* No exception in flight.
NoExc == ""

\* The events of one _connect_socket call, by channel.
NoLog == [data |-> <<>>, control |-> <<>>]

CliOff ==
    [pc |-> "off", ssl_enabled |-> FALSE, retry_attempts |-> 0, channel |-> "data",
     attempt |-> 0, log |-> NoLog, exc |-> NoExc,
     data_socket |-> NoSocket, control_socket |-> NoSocket]

\* Appends event to the log of the call in progress.
Logged(event) == [cli.log EXCEPT ![cli.channel] = Append(@, event)]

\* connect_to_server reads its configuration and calls _connect_socket for the
\* data channel.
ConnectToServer ==
    /\ cli.pc = "start"
    /\ cli' = [cli EXCEPT !.pc = "loop", !.channel = "data", !.attempt = 0]
    /\ UNCHANGED io
    /\ UNCHANGED besideClient

\* _connect_socket returns sock: connect_to_server keeps it and goes on to the
\* control channel, or returns both sockets.
Returns(sock, log) ==
    IF cli.channel = "data"
    THEN [cli EXCEPT !.pc = "loop", !.channel = "control", !.attempt = 0,
                     !.log = log, !.data_socket = sock]
    ELSE [cli EXCEPT !.pc = "returned", !.log = log, !.control_socket = sock]

\* "for attempt in range(retry_attempts)": the next attempt, or the end of the
\* loop and "return None".
LoopTest ==
    /\ cli.pc = "loop"
    /\ cli' = IF cli.attempt < cli.retry_attempts
              THEN [cli EXCEPT !.pc = "connect"]
              ELSE Returns(NoSocket, cli.log)
    /\ UNCHANGED io
    /\ UNCHANGED besideClient

\* socket.socket(...) and client_socket.connect((host, port)): connected, or
\* socket.error.
Connect ==
    /\ cli.pc = "connect"
    /\ \E connected \in BOOLEAN :
          cli' = IF connected
                 THEN IF cli.ssl_enabled
                      THEN [cli EXCEPT !.pc = "wrap", !.log = Logged("connected")]
                      ELSE Returns(PlainSocket, Logged("connected"))
                 ELSE [cli EXCEPT !.pc = "except", !.exc = "socket.error",
                                  !.log = Logged("connect_failed")]
    /\ UNCHANGED io
    /\ UNCHANGED besideClient

\* A wrap that hands back the TCP socket when the TLS handshake fails.
WrapFallsBack ==
    /\ cli.pc = "wrap"
    /\ \E outcome \in {"wrapped", "ssl.SSLError", "socket.error"} :
          cli' = IF outcome = "wrapped"
                 THEN Returns(TlsSocket, Logged("wrapped"))
                 ELSE Returns(PlainSocket, Logged("wrap_failed"))
    /\ UNCHANGED io
    /\ UNCHANGED besideClient

\* ssl_context.wrap_socket(...): the TLS socket; or ssl.SSLError, on which the
\* socket is closed and the last attempt raises while an earlier one continues;
\* or a socket.error in the handshake, which the inner handlers do not catch.
Wrap ==
    /\ cli.pc = "wrap"
    /\ \E outcome \in {"wrapped", "ssl.SSLError", "socket.error"} :
          cli' = CASE outcome = "wrapped" -> Returns(TlsSocket, Logged("wrapped"))
                   [] outcome = "socket.error" ->
                          [cli EXCEPT !.pc = "except", !.exc = "socket.error",
                                      !.log = Logged("wrap_reset")]
                   [] OTHER ->
                          IF cli.attempt = cli.retry_attempts - 1
                          THEN [cli EXCEPT !.pc = "except", !.exc = "ssl.SSLError",
                                           !.log = Logged("wrap_failed")]
                          ELSE [cli EXCEPT !.pc = "loop", !.attempt = @ + 1,
                                           !.log = Logged("wrap_failed")]
    /\ UNCHANGED io
    /\ UNCHANGED besideClient

\* An except clause that also sleeps and goes round after the last attempt.
ExceptOneMore ==
    /\ cli.pc = "except"
    /\ cli' = IF cli.attempt < cli.retry_attempts
              THEN [cli EXCEPT !.pc = "loop", !.attempt = @ + 1, !.exc = NoExc,
                               !.log = Logged("sleep")]
              ELSE [cli EXCEPT !.pc = "raised"]
    /\ UNCHANGED io
    /\ UNCHANGED besideClient

\* "except (socket.error, ssl.SSLError)": sleep and go round, or raise on the
\* last attempt.
Except ==
    /\ cli.pc = "except"
    /\ cli' = IF cli.attempt < cli.retry_attempts - 1
              THEN [cli EXCEPT !.pc = "loop", !.attempt = @ + 1, !.exc = NoExc,
                               !.log = Logged("sleep")]
              ELSE [cli EXCEPT !.pc = "raised"]
    /\ UNCHANGED io
    /\ UNCHANGED besideClient

(* ------------------- send_message and receive_message ------------------ *)

\* Longest message handed to send_message or given by sock.recv.
MaxMsg == 2

\* Code points of the str messages: 'R' and one beyond ASCII.
CodePoints == {82, 233}

\* Byte values of the bytes messages.
ByteValues == {0, 255}

RECURSIVE SeqsOver(_, _)
\* The sequences over S of length n at most.
SeqsOver(S, n) ==
    IF n = 0
    THEN {<<>>}
    ELSE LET shorter == SeqsOver(S, n - 1)
         IN  shorter \cup {Append(q, x) : q \in {t \in shorter : Len(t) = n - 1}, x \in S}

\* What callers hand to send_message: a str or bytes.
Messages ==
    {[type |-> "str", value |-> v] : v \in SeqsOver(CodePoints, MaxMsg)}
    \cup {[type |-> "bytes", value |-> v] : v \in SeqsOver(ByteValues, MaxMsg)}

RECURSIVE EncodeUtf8(_)
\* message.encode('utf-8') for code points below 2048.
EncodeUtf8(text) ==
    IF text = <<>>
    THEN <<>>
    ELSE (IF Head(text) < 128
          THEN <<Head(text)>>
          ELSE <<192 + (Head(text) \div 64), 128 + (Head(text) % 64)>>)
         \o EncodeUtf8(Tail(text))

\* "if isinstance(message, str): message = message.encode('utf-8')"
AsBytes(message) ==
    IF message.type = "str" THEN EncodeUtf8(message.value) ELSE message.value

\* The exceptions sock.sendall and sock.recv raise when the transport fails, and
\* two that are no transport failure (a message of another type, a bad
\* BUFFER_SIZE).
TransportFailures ==
    {"socket.error", "socket.timeout", "ConnectionResetError", "BrokenPipeError",
     "ssl.SSLError", "ssl.SSLEOFError"}
OtherErrors == {"TypeError", "ValueError"}

\* The base class of an exception class (socket.error is OSError).
BaseOf(e) ==
    CASE e \in {"socket.timeout", "ConnectionResetError", "BrokenPipeError",
                "ssl.SSLError"} -> "socket.error"
      [] e = "ssl.SSLEOFError" -> "ssl.SSLError"
      [] OTHER -> "Exception"

RECURSIVE IsInstance(_, _)
IsInstance(e, class) ==
    \/ e = class
    \/ e /= "Exception" /\ IsInstance(BaseOf(e), class)

\* An except clause that misses the TLS errors.
CaughtSocketOnly(e) == e \in {"socket.error", "socket.timeout"}

\* "except (socket.error, ssl.SSLError)"
Caught(e) == IsInstance(e, "socket.error") \/ IsInstance(e, "ssl.SSLError")

\* Python values a call returns: None, bytes, and the bools (the ints 1 and 0).
None == [type |-> "NoneType", value |-> <<>>]
Bytes(b) == [type |-> "bytes", value |-> b]
True == [type |-> "bool", value |-> <<1>>]
False == [type |-> "bool", value |-> <<0>>]

\* wire: what sock.sendall was given and took; raised: the exception that left the
\* call.
IoIdle ==
    [pc |-> "idle", op |-> "", message |-> [type |-> "bytes", value |-> <<>>],
     outcome |-> "", returned |-> None, wire |-> <<>>, raised |-> NoExc]
IoOff == [IoIdle EXCEPT !.pc = "off"]

\* send_message's return value when sock.sendall ends with outcome.
SendResult(outcome) ==
    IF outcome = "sent" THEN True ELSE IF Caught(outcome) THEN False ELSE None

\* The exception that leaves a call whose socket operation ended with outcome.
Propagated(outcome) ==
    IF outcome \in {"sent", "data"} \/ Caught(outcome) THEN NoExc ELSE outcome

\* send_message(sock, message): sock.sendall takes the bytes or raises.
SendMessage ==
    /\ io.pc = "idle"
    /\ \E message \in Messages, outcome \in {"sent"} \cup TransportFailures \cup OtherErrors :
          io' = [io EXCEPT !.pc = "done", !.op = "send", !.message = message,
                           !.outcome = outcome,
                           !.wire = IF outcome = "sent" THEN AsBytes(message) ELSE <<>>,
                           !.returned = SendResult(outcome),
                           !.raised = Propagated(outcome)]
    /\ UNCHANGED cli
    /\ UNCHANGED besideClient

\* receive_message's return value when sock.recv ends with outcome and data.
ReceiveResult(outcome, received_data) ==
    IF outcome = "data"
    THEN IF received_data = <<>> THEN None ELSE Bytes(received_data)
    ELSE None

\* receive_message(sock): sock.recv gives bytes (b"" on a closed stream) or
\* raises.
ReceiveMessage ==
    /\ io.pc = "idle"
    /\ \E outcome \in {"data"} \cup TransportFailures \cup OtherErrors :
          \E received_data \in IF outcome = "data"
                               THEN SeqsOver(ByteValues, MaxMsg)
                               ELSE {<<>>} :
              io' = [io EXCEPT !.pc = "done", !.op = "receive", !.outcome = outcome,
                               !.wire = received_data,
                               !.returned = ReceiveResult(outcome, received_data),
                               !.raised = Propagated(outcome)]
    /\ UNCHANGED cli
    /\ UNCHANGED besideClient

\* The caller goes on to its next call.
IoNext ==
    /\ io.pc = "done"
    /\ io' = IoIdle
    /\ UNCHANGED cli
    /\ UNCHANGED besideClient

(* ======================================================================= *)
(* The accept side of utils/network_manager.py: the two _accept_connections *)
(* threads that start_server creates, and stop.                             *)
(* ======================================================================= *)

\* Connections one listening socket accepts.
MaxConns == 2

\* Errors one accept loop catches in its outer handlers.
MaxErrors == 1

\* channel_type of the two listening sockets.
Listeners == {"data", "control"}

\* No lock object.
NoMutex == <<"", 0>>

\* ssl_context: whether start_server made one (SSL_ENABLED); accepted: the
\* connections accept() has returned; mutex: the lock object of the with block;
\* errors: the exceptions the outer handlers have caught.
AccFresh(ssl_context) ==
    [pc |-> "while", ssl_context |-> ssl_context, accepted |-> 0, mutex |-> NoMutex,
     errors |-> 0]

AccOff == [ch \in Listeners |-> [AccFresh(FALSE) EXCEPT !.pc = "off"]]

\* pc: where the call of stop is; i: the position of its loop in
\* self.connections; open: the accepted sockets that are open, as <<channel_type,
\* number>>; listening: the listening sockets that are open.
StpOff == [pc |-> "off", i |-> 0, open |-> {}, listening |-> {}]

\* start_server has bound both listening sockets; stop has not been called.
StpIdle == [StpOff EXCEPT !.pc = "idle", !.listening = Listeners]

\* "while self.running:"
AccLoopTest(ch) ==
    /\ acc[ch].pc = "while"
    /\ acc' = [acc EXCEPT ![ch].pc = IF running THEN "accept" ELSE "stopped"]
    /\ UNCHANGED <<connections, held, running, stp>>
    /\ UNCHANGED besideAccept

\* server_socket.accept() returns a connection: a new open socket.
AccAccept(ch) ==
    /\ acc[ch].pc = "accept"
    /\ acc[ch].accepted < MaxConns
    /\ ch \in stp.listening
    /\ acc' = [acc EXCEPT ![ch].accepted = @ + 1,
                          ![ch].pc = IF acc[ch].ssl_context THEN "wrap" ELSE "start"]
    /\ stp' = [stp EXCEPT !.open = @ \cup {<<ch, acc[ch].accepted + 1>>}]
    /\ UNCHANGED <<connections, held, running>>
    /\ UNCHANGED besideAccept

\* server_socket.accept() raises socket.error (stop has closed the listening
\* socket, or the accept itself fails).
AccAcceptError(ch) ==
    /\ acc[ch].pc = "accept"
    /\ acc[ch].errors < MaxErrors \/ ch \notin stp.listening
    /\ acc' = [acc EXCEPT ![ch].pc = "except"]
    /\ UNCHANGED <<connections, held, running, stp>>
    /\ UNCHANGED besideAccept

\* "except socket.error" / "except Exception": a message is printed and the loop
\* tests again.
AccExcept(ch) ==
    /\ acc[ch].pc = "except"
    /\ acc' = [acc EXCEPT ![ch].pc = "while",
                          ![ch].errors = IF @ < MaxErrors THEN @ + 1 ELSE @]
    /\ UNCHANGED <<connections, held, running, stp>>
    /\ UNCHANGED besideAccept

\* ssl_context.wrap_socket(client_socket, server_side=True): the TLS socket; or
\* ssl.SSLError, on which the socket is closed and the loop continues; or a
\* socket.error in the handshake, which the outer handler catches. A handshake
\* that fails leaves the socket closed.
AccWrap(ch) ==
    /\ acc[ch].pc = "wrap"
    /\ \E outcome \in {"wrapped", "ssl.SSLError"}
                        \cup IF acc[ch].errors < MaxErrors THEN {"socket.error"} ELSE {} :
          /\ acc' = [acc EXCEPT ![ch].pc = CASE outcome = "wrapped" -> "start"
                                             [] outcome = "ssl.SSLError" -> "while"
                                             [] OTHER -> "except"]
          /\ stp' = IF outcome = "wrapped"
                    THEN stp
                    ELSE [stp EXCEPT !.open = @ \ {<<ch, acc[ch].accepted>>}]
    /\ UNCHANGED <<connections, held, running>>
    /\ UNCHANGED besideAccept

\* client_thread.start(), then "with threading.Lock():" the call makes a new lock
\* object, which nobody holds, and the with statement acquires it.
AccEnter(ch) ==
    /\ acc[ch].pc = "start"
    /\ LET mutex == <<ch, acc[ch].accepted>>
       IN  /\ mutex \notin held
           /\ held' = held \cup {mutex}
           /\ acc' = [acc EXCEPT ![ch].pc = "append", ![ch].mutex = mutex]
    /\ UNCHANGED <<connections, running, stp>>
    /\ UNCHANGED besideAccept

\* self.connections.append((client_socket, client_thread))
AccAppend(ch) ==
    /\ acc[ch].pc = "append"
    /\ connections' = Append(connections, <<ch, acc[ch].accepted>>)
    /\ acc' = [acc EXCEPT ![ch].pc = "exit"]
    /\ UNCHANGED <<held, running, stp>>
    /\ UNCHANGED besideAccept

\* The with block ends: the lock object is released.
AccExit(ch) ==
    /\ acc[ch].pc = "exit"
    /\ held' = held \ {acc[ch].mutex}
    /\ acc' = [acc EXCEPT ![ch].pc = "while", ![ch].mutex = NoMutex]
    /\ UNCHANGED <<connections, running, stp>>
    /\ UNCHANGED besideAccept

\* stop() is called: "self.running = False", and the loop over
\* self.connections starts.
AccStop ==
    /\ stp.pc = "idle"
    /\ running' = FALSE
    /\ stp' = [stp EXCEPT !.pc = "loop", !.i = 1]
    /\ UNCHANGED <<acc, connections, held>>
    /\ UNCHANGED besideAccept

\* "for client_socket, _ in self.connections:" the next entry of the list as it
\* is now; client_socket.shutdown(...), client_socket.close(). A shutdown that
\* raises (the peer is gone) is caught by the bare except, and close is skipped.
StopClose ==
    /\ stp.pc = "loop"
    /\ stp.i <= Len(connections)
    /\ \E raised \in BOOLEAN :
          stp' = [stp EXCEPT !.i = @ + 1,
                             !.open = IF raised THEN @ ELSE @ \ {connections[stp.i]}]
    /\ UNCHANGED <<acc, connections, held, running>>
    /\ UNCHANGED besideAccept

\* The list is exhausted: "if self.is_server:" every server_socket is closed, and
\* stop returns.
StopServers ==
    /\ stp.pc = "loop"
    /\ stp.i > Len(connections)
    /\ stp' = [stp EXCEPT !.pc = "returned", !.listening = {}]
    /\ UNCHANGED <<acc, connections, held, running>>
    /\ UNCHANGED besideAccept

(* ======================================================================= *)
(* client/multi_client.py: HuffStreamClient.send_file.                      *)
(* ======================================================================= *)

\* Calls of send_file on one client.
MaxCalls == 2

\* Largest server index a caller passes.
MaxServer == 1

\* server_index=None
NoIndex == -1

ServerIndexes == {NoIndex} \cup (0 .. MaxServer)

\* The paths a caller passes: one that names no file, an empty file, a file with
\* contents.
Paths == {"missing.txt", "empty.txt", "a.txt"}

\* os.path.exists(file_path)
Exists(file_path) == file_path /= "missing.txt"

\* The positional parameters of "def connect_to_server(self)".
ConnectParams == 1

\* The positional arguments of
\* "self.connection_manager.connect_to_server(self.current_server)".
ConnectArgs == 2

\* frames: what the call has sent and received, in order, each as a record
\* [channel, dir, frame, size]; result: what the call returns; exc: the exception
\* the try block raised.
SndNew ==
    [pc |-> "idle", calls |-> 0, file_path |-> "", server_index |-> NoIndex,
     current_server |-> 0, exc |-> NoExc, result |-> None, frames |-> <<>>]

SndOff == [SndNew EXCEPT !.pc = "off"]

\* client.send_file(file_path, server_index)
SendFile ==
    /\ snd.pc = "idle"
    /\ snd.calls < MaxCalls
    /\ \E file_path \in Paths, server_index \in ServerIndexes :
          snd' = [snd EXCEPT !.pc = "called", !.calls = @ + 1, !.file_path = file_path,
                             !.server_index = server_index, !.exc = NoExc,
                             !.result = None, !.frames = <<>>]
    /\ UNCHANGED besideSender

\* "if server_index is not None: self.current_server = server_index", then
\* "if not os.path.exists(file_path): return False".
SndCheck ==
    /\ snd.pc = "called"
    /\ LET current_server == IF snd.server_index /= NoIndex
                             THEN snd.server_index ELSE snd.current_server
       IN  snd' = IF Exists(snd.file_path)
                  THEN [snd EXCEPT !.pc = "try", !.current_server = current_server]
                  ELSE [snd EXCEPT !.pc = "returned", !.current_server = current_server,
                                   !.result = False]
    /\ UNCHANGED besideSender

\* The first statement of the try block: the call of connect_to_server with one
\* argument more than the method takes raises TypeError before the method runs.
SndConnect ==
    /\ snd.pc = "try"
    /\ snd' = IF ConnectArgs = ConnectParams
              THEN [snd EXCEPT !.pc = "connected"]
              ELSE [snd EXCEPT !.pc = "except", !.exc = "TypeError"]
    /\ UNCHANGED besideSender

\* "except Exception as e: ... return False"
SndExcept ==
    /\ snd.pc = "except"
    /\ snd' = [snd EXCEPT !.pc = "finally", !.result = False]
    /\ UNCHANGED besideSender

\* The finally clause: neither socket is among the locals, nothing is closed.
SndFinally ==
    /\ snd.pc = "finally"
    /\ snd' = [snd EXCEPT !.pc = "returned"]
    /\ UNCHANGED besideSender

\* The caller has the result and may call again.
SndReturn ==
    /\ snd.pc = "returned"
    /\ snd' = [snd EXCEPT !.pc = "idle"]
    /\ UNCHANGED besideSender

(* --------------------------- the specification ------------------------- *)

ServerInit ==
    /\ transfers = <<>>
    /\ lock = Free
    /\ ctl = [c \in CtlIds |-> CtlIdle]
    /\ dat = [d \in DataIds |-> DataIdle]
    /\ running = TRUE

ClientOff == cli = CliOff /\ io = IoOff

AcceptOff == acc = AccOff /\ connections = <<>> /\ held = {} /\ stp = StpOff

SenderOff == snd = SndOff

Init == CodecOff /\ ServerInit /\ ClientOff /\ AcceptOff /\ SenderOff

CtlNext(c) ==
    \/ CtlAccept(c)
    \/ CtlAcceptFailed(c)
    \/ CtlRecvCommand(c)
    \/ CtlRecvUnhandled(c)
    \/ CtlRecvClosed(c)
    \/ CtlAcquire(c)
    \/ CtlPrepare(c)
    \/ CtlStatus(c)
    \/ CtlCancel(c)
    \/ CtlSend(c)

DataNext(d) ==
    \/ DataAccept(d)
    \/ DataAcceptFailed(d)
    \/ DataRecvMeta(d)
    \/ DataNoMeta(d)
    \/ DataAcquire(d)
    \/ DataUnknownId(d)
    \/ DataHandshake(d)
    \/ DataSendReady(d)
    \/ DataOpen(d)
    \/ DataRecvChunk(d)
    \/ DataRecvEnd(d)
    \/ DataLoopExit(d)
    \/ DataMarkReceived(d)
    \/ DataDecode(d)
    \/ DataMarkDecoded(d)
    \/ DataSendComplete(d)
    \/ DataMarkIncomplete(d)
    \/ DataSendIncomplete(d)

Next == (\E c \in CtlIds : CtlNext(c)) \/ (\E d \in DataIds : DataNext(d))

Spec == Init /\ [][Next]_vars

\* The codec runs alone: no connection is ever accepted.
CodecStart == CodecInit /\ ServerInit /\ ClientOff /\ AcceptOff /\ SenderOff

CodecSpec == CodecStart /\ [][CodecNext]_vars

\* A client about to call connect_to_server, with its configuration read from the
\* environment, and a peer about to call send_message or receive_message.
ClientInit ==
    /\ \E ssl_enabled \in BOOLEAN, retry_attempts \in 0 .. MaxAttempts :
          cli = [CliOff EXCEPT !.pc = "start", !.ssl_enabled = ssl_enabled,
                               !.retry_attempts = retry_attempts]
    /\ io = IoIdle

ClientStart == CodecOff /\ ServerInit /\ ClientInit /\ AcceptOff /\ SenderOff

ClientNext ==
    \/ ConnectToServer
    \/ LoopTest
    \/ Connect
    \/ Wrap
    \/ Except
    \/ SendMessage
    \/ ReceiveMessage
    \/ IoNext

ClientSpec == ClientStart /\ [][ClientNext]_vars

\* start_server has started the two listener threads, with or without SSL.
AcceptInit ==
    /\ \E ssl_context \in BOOLEAN : acc = [ch \in Listeners |-> AccFresh(ssl_context)]
    /\ connections = <<>>
    /\ held = {}
    /\ stp = StpIdle

AcceptStart == CodecOff /\ ServerInit /\ ClientOff /\ AcceptInit /\ SenderOff

AcceptNext ==
    \/ \E ch \in Listeners : AccLoopTest(ch)
    \/ \E ch \in Listeners : AccAccept(ch)
    \/ \E ch \in Listeners : AccAcceptError(ch)
    \/ \E ch \in Listeners : AccExcept(ch)
    \/ \E ch \in Listeners : AccWrap(ch)
    \/ \E ch \in Listeners : AccEnter(ch)
    \/ \E ch \in Listeners : AccAppend(ch)
    \/ \E ch \in Listeners : AccExit(ch)
    \/ AccStop
    \/ StopClose
    \/ StopServers

AcceptSpec == AcceptStart /\ [][AcceptNext]_vars

\* A client whose current_server is any index a caller has set.
SenderInit == \E current_server \in 0 .. MaxServer :
                  snd = [SndNew EXCEPT !.current_server = current_server]

SenderStart == CodecOff /\ ServerInit /\ ClientOff /\ AcceptOff /\ SenderInit

SenderNext ==
    \/ SendFile
    \/ SndCheck
    \/ SndConnect
    \/ SndExcept
    \/ SndFinally
    \/ SndReturn

SenderSpec == SenderStart /\ [][SenderNext]_vars

(* --------------------- properties of the control channel --------------- *)

\* The step in which control handler c runs the with block of command k and builds
\* its response.
Handles(c, k) ==
    /\ ctl[c].pc = "locked"
    /\ ctl[c].cmd.command = k
    /\ ctl'[c].pc = "reply"

\* Every record but id's is the same before and after the step.
OthersKept(id) ==
    /\ DOMAIN transfers' \ {id} = DOMAIN transfers \ {id}
    /\ \A other \in DOMAIN transfers \ {id} : transfers'[other] = transfers[other]

PrepareUpserts(c) ==
    LET cmd == ctl[c].cmd
        id == cmd.transfer_id
    IN  Handles(c, "prepare") =>
            /\ id \in DOMAIN transfers'
            /\ transfers'[id].status = "prepared"
            /\ transfers'[id].filename = cmd.filename
            /\ transfers'[id].filesize = cmd.filesize
            /\ transfers'[id].decoded_path = NoPath
            /\ OthersKept(id)
            /\ ctl'[c].reply = [status |-> "ready", transfer_id |-> id]
            /\ RegistryPut(transfers', id, PreparedRecord(cmd.filename, cmd.filesize))
                   = transfers'

\* C8: prepare(id, filename, size) is an upsert: whether id had no record or one in
\* any status, after the command's step id has a record with status prepared, the
\* given filename and the declared size, every other record is as it was, and the
\* reply is {status: ready, transfer_id: id}; the same prepare applied once more
\* to the registry the step leaves gives that registry again.
C8_PrepareUpserts == [][\A c \in CtlIds : PrepareUpserts(c)]_vars

\* A prepare has just overwritten a record that a data handler had decoded, with
\* the other file.
C8_Witness ==
    \E c \in CtlIds :
        /\ ctl[c].pc = "reply"
        /\ ctl[c].cmd.command = "prepare"
        /\ ctl[c].prior = "decoded"
        /\ ctl[c].reply.status = "ready"
        /\ ctl[c].cmd.transfer_id \in DOMAIN transfers
        /\ transfers[ctl[c].cmd.transfer_id].status = "prepared"
        /\ transfers[ctl[c].cmd.transfer_id].filesize = 0

StatusReads(c) ==
    LET id == ctl[c].cmd.transfer_id
    IN  Handles(c, "status") =>
            /\ transfers' = transfers
            /\ ctl'[c].reply.transfer_id = id
            /\ id \in DOMAIN transfers => ctl'[c].reply.status = transfers[id].status
            /\ id \notin DOMAIN transfers => ctl'[c].reply.status = "unknown"

\* C9: status(id) replies the status the record of id has when the command runs,
\* "unknown" when id has no record, and leaves the registry exactly as it was: no
\* record is created and no status is modified.
C9_StatusReads == [][\A c \in CtlIds : StatusReads(c)]_vars

\* A status command has found a record whose decode failed and replies that.
C9_Witness ==
    \E c \in CtlIds :
        /\ ctl[c].pc = "reply"
        /\ ctl[c].cmd.command = "status"
        /\ ctl[c].cmd.transfer_id \in DOMAIN transfers
        /\ ctl[c].reply.status = "decode_failed"

\* A status command has found no record and replies "unknown".
C9_WitnessUnknown ==
    \E c \in CtlIds :
        /\ ctl[c].pc = "reply"
        /\ ctl[c].cmd.command = "status"
        /\ ctl[c].cmd.transfer_id \notin DOMAIN transfers
        /\ ctl[c].reply.status = "unknown"
        /\ transfers /= <<>>

CancelForces(c) ==
    LET id == ctl[c].cmd.transfer_id
    IN  /\ Handles(c, "cancel") /\ id \in DOMAIN transfers =>
            /\ transfers'[id] = [transfers[id] EXCEPT !.status = "cancelled"]
            /\ OthersKept(id)
            /\ ctl'[c].reply = [status |-> "cancelled", transfer_id |-> id]
        /\ Handles(c, "status") /\ id \in DOMAIN transfers
               /\ transfers[id].status = "cancelled" =>
            ctl'[c].reply = [status |-> "cancelled", transfer_id |-> id]

\* C10: cancel(id) for an id that has a record, whatever the record's status, sets
\* that status to cancelled, changes nothing else in the registry and replies
\* {status: cancelled, transfer_id: id}; a status(id) that runs on the registry the
\* cancel left replies "cancelled".
C10_CancelForces == [][\A c \in CtlIds : CancelForces(c)]_vars

\* The statuses a cancel can find on a record.
CancelWitness(status) ==
    \E c \in CtlIds :
        /\ ctl[c].pc = "reply"
        /\ ctl[c].cmd.command = "cancel"
        /\ ctl[c].prior = status
        /\ ctl[c].reply.status = "cancelled"
        /\ StatusOf(transfers, ctl[c].cmd.transfer_id) = "cancelled"

\* A cancel has just forced a record that a data handler is receiving for.
C10_Witness == CancelWitness("receiving")

C10_WitnessPrepared == CancelWitness("prepared")
C10_WitnessReceived == CancelWitness("received")
C10_WitnessDecoded == CancelWitness("decoded")
C10_WitnessDecodeFailed == CancelWitness("decode_failed")
C10_WitnessIncomplete == CancelWitness("incomplete")

\* The status command that follows a cancel on the same connection replies
\* "cancelled".
C10_WitnessStatusNext ==
    \E c \in CtlIds :
        /\ ctl[c].pc = "reply"
        /\ ctl[c].cmd.command = "status"
        /\ ctl[c].prior = "cancelled"
        /\ ctl[c].reply.status = "cancelled"

(* ----------------------- properties of the data channel ---------------- *)

\* The statuses the transfer state machine ends in.
Terminal == {"decoded", "decode_failed", "incomplete", "cancelled"}

\* A step of a data handler: no control handler moves.
DataStep == ctl' = ctl /\ dat' /= dat

\* C11: decoded, decode_failed, incomplete and cancelled are terminal: a step of a
\* data handler (a handshake for the id, or a write by a handler in flight) never
\* changes the status of a record that has one of them.
C11_TerminalKept ==
    [][DataStep =>
          \A id \in DOMAIN transfers :
              transfers[id].status \in Terminal =>
                  transfers'[id].status = transfers[id].status]_vars

\* Data handler d finds, under the lock, that its id has no record, and moves.
UnknownIdStep(d) ==
    /\ dat[d].pc = "check"
    /\ dat[d].transfer_id \notin DOMAIN transfers
    /\ dat'[d] /= dat[d]

\* C12: a data connection whose metadata frame names an id without a record is
\* closed with no frame sent on it (no READY, COMPLETE, INCOMPLETE or error); the
\* step creates no record, changes no record, and moves no other connection.
C12_UnknownIdSilent ==
    [][\A d \in DataIds :
          UnknownIdStep(d) =>
              /\ dat'[d].pc = "closed"
              /\ dat'[d].sent = <<>>
              /\ transfers' = transfers
              /\ ctl' = ctl
              /\ \A o \in DataIds \ {d} : dat'[o] = dat[o]]_vars

\* A connection that named an unknown id is closed with nothing sent, while the
\* registry holds a record of another id and another data handler is receiving.
C12_Witness ==
    \E d \in DataIds :
        /\ dat[d].pc = "closed"
        /\ dat[d].transfer_id /= NoId
        /\ dat[d].transfer_id \notin DOMAIN transfers
        /\ dat[d].sent = <<>>
        /\ \E o \in DataIds \ {d} :
              /\ dat[o].pc = "loop"
              /\ dat[o].transfer_id \in DOMAIN transfers
              /\ transfers[dat[o].transfer_id].status = "receiving"

RECURSIVE CountFrames(_, _)
\* How many times frame occurs in the log sent.
CountFrames(sent, frame) ==
    IF sent = <<>>
    THEN 0
    ELSE (IF sent[1] = frame THEN 1 ELSE 0) + CountFrames(Tail(sent), frame)

\* The places of a data handler before its send of READY.
BeforeReady == {"idle", "recv_meta", "meta", "check", "ready"}

ReadyOnce(d) ==
    /\ CountFrames(dat[d].sent, "READY") <= 1
    /\ dat[d].pc \in BeforeReady => CountFrames(dat[d].sent, "READY") = 0
    /\ dat[d].pc \notin BeforeReady \cup {"closed"} =>
           CountFrames(dat[d].sent, "READY") = 1
    /\ CountFrames(dat[d].sent, "READY") = 1 => dat[d].transfer_id \in DOMAIN transfers
    /\ dat[d].received > 0 => CountFrames(dat[d].sent, "READY") = 1

ReadyAfterReceiving(d) ==
    /\ dat[d].pc /= "ready" /\ dat'[d].pc = "ready" =>
           /\ dat[d].transfer_id \in DOMAIN transfers
           /\ transfers'[dat[d].transfer_id].status = "receiving"
    /\ CountFrames(dat'[d].sent, "READY") > CountFrames(dat[d].sent, "READY") =>
           dat[d].pc = "ready"
    /\ dat'[d].received /= dat[d].received =>
           CountFrames(dat[d].sent, "READY") = 1

\* C13: on a data connection that names a registered id, the step that brings the
\* handler to its send of READY is the one that sets the record's status to
\* receiving; READY is sent at most once on a connection, exactly once on one that
\* got past the handshake, only when the id has a record, and no chunk is read on
\* a connection on which READY has not been sent.
C13_ReadyOnce ==
    /\ [](\A d \in DataIds : ReadyOnce(d))
    /\ [][\A d \in DataIds : ReadyAfterReceiving(d)]_vars

\* A handler has sent READY, once, and has read a chunk of a transfer that is in
\* status receiving.
C13_Witness ==
    \E d \in DataIds :
        /\ dat[d].pc = "loop"
        /\ dat[d].received > 0
        /\ dat[d].sent = <<"READY">>
        /\ transfers[dat[d].transfer_id].status = "receiving"

\* The places of a data handler on the branch "if received == filesize".
OnComplete == {"got_all", "mark_received", "decode", "decode_done", "mark_decoded", "complete"}

\* Data handler d arrives at place to.
Arrives(d, to) == dat[d].pc /= to /\ dat'[d].pc = to

CompleteOrder(d) ==
    LET id == dat[d].transfer_id
    IN  /\ Arrives(d, "got_all") => dat'[d].received = dat'[d].filesize
        /\ Arrives(d, "mark_received") => dat[d].pc = "got_all"
        /\ Arrives(d, "decode") =>
               dat[d].pc = "mark_received" /\ transfers'[id].status = "received"
        /\ Arrives(d, "decode_done") => dat[d].pc = "decode"
        /\ Arrives(d, "mark_decoded") => dat[d].pc = "decode_done"
        /\ Arrives(d, "complete") =>
               /\ dat[d].pc = "mark_decoded"
               /\ dat[d].decoded_file_path /= NoPath =>
                      /\ transfers'[id].status = "decoded"
                      /\ transfers'[id].decoded_path = dat[d].decoded_file_path
               /\ dat[d].decoded_file_path = NoPath =>
                      transfers'[id].status = "decode_failed"
        /\ dat[d].pc = "complete" /\ dat'[d] /= dat[d] =>
               dat'[d].sent = Append(dat[d].sent, "COMPLETE")
        /\ CountFrames(dat'[d].sent, "COMPLETE") > CountFrames(dat[d].sent, "COMPLETE") =>
               dat[d].pc = "complete"
        \* a data handler writes decoded or decode_failed only from mark_decoded
        /\ dat'[d] /= dat[d] /\ id \in DOMAIN transfers
               /\ transfers'[id].status \in {"decoded", "decode_failed"}
               /\ transfers'[id].status /= transfers[id].status =>
               dat[d].pc = "mark_decoded"

CompleteOnlyWhenAll(d) ==
    /\ dat[d].pc \in OnComplete => dat[d].received = dat[d].filesize
    /\ CountFrames(dat[d].sent, "COMPLETE") > 0 =>
           /\ dat[d].received = dat[d].filesize
           /\ dat[d].sent = <<"READY", "COMPLETE">>

\* C14: a data handler whose running total equals the declared size writes
\* received, then runs the decode, then writes decoded (with the path) on success
\* or decode_failed on failure, then sends COMPLETE; COMPLETE follows both
\* outcomes, is sent only on a connection whose total equalled the declared size,
\* and the handler writes decoded or decode_failed only after it wrote received.
C14_CompleteOrder ==
    /\ [](\A d \in DataIds : CompleteOnlyWhenAll(d))
    /\ [][\A d \in DataIds : CompleteOrder(d)]_vars

\* A handler has sent COMPLETE after a decode that failed, and the record says so.
C14_Witness ==
    \E d \in DataIds :
        /\ dat[d].pc = "closed"
        /\ dat[d].sent = <<"READY", "COMPLETE">>
        /\ dat[d].decoded_file_path = NoPath
        /\ dat[d].filesize > 0
        /\ transfers[dat[d].transfer_id].status = "decode_failed"

\* A handler has sent COMPLETE after a decode that succeeded.
C14_WitnessDecoded ==
    \E d \in DataIds :
        /\ dat[d].pc = "closed"
        /\ dat[d].sent = <<"READY", "COMPLETE">>
        /\ transfers[dat[d].transfer_id].status = "decoded"
        /\ transfers[dat[d].transfer_id].decoded_path = "b_decoded.txt"

\* The places of a data handler on the else branch of "if received == filesize".
OnIncomplete == {"short", "mark_incomplete", "incomplete"}

\* The stream of d closes in the loop with fewer bytes than declared.
ShortClose(d) ==
    /\ dat[d].pc = "loop"
    /\ dat[d].received < dat[d].filesize
    /\ dat'[d].pc /= "loop"

IncompleteOrder(d) ==
    LET id == dat[d].transfer_id
    IN  /\ ShortClose(d) => dat'[d].pc = "short" /\ dat'[d].received = dat[d].received
        /\ dat[d].pc \in OnIncomplete => dat'[d].pc \in OnIncomplete \cup {"closed"}
        /\ Arrives(d, "mark_incomplete") => dat[d].pc = "short"
        /\ Arrives(d, "incomplete") =>
               dat[d].pc = "mark_incomplete" /\ transfers'[id].status = "incomplete"
        /\ dat[d].pc = "incomplete" /\ dat'[d] /= dat[d] =>
               dat'[d].sent = Append(dat[d].sent, "INCOMPLETE") /\ dat'[d].pc = "closed"
        /\ dat[d].pc = "short" /\ dat'[d] /= dat[d] => dat'[d].pc = "mark_incomplete"

NoCompleteWhenShort(d) ==
    /\ dat[d].pc \in OnIncomplete =>
           /\ dat[d].received /= dat[d].filesize
           /\ dat[d].decoded_file_path = NoPath
           /\ dat[d].sent = <<"READY">>
    /\ dat[d].received < dat[d].filesize => CountFrames(dat[d].sent, "COMPLETE") = 0
    /\ dat[d].received < dat[d].filesize =>
           dat[d].pc \notin {"mark_received", "decode", "decode_done", "mark_decoded"}
    /\ CountFrames(dat[d].sent, "INCOMPLETE") > 0 =>
           /\ dat[d].sent = <<"READY", "INCOMPLETE">>
           /\ dat[d].decoded_file_path = NoPath

\* C15: when the stream of a data connection closes with fewer bytes received
\* than declared, the handler writes incomplete and then sends INCOMPLETE; it
\* does not go through the decode and COMPLETE is not sent on that connection.
C15_IncompleteOnShort ==
    /\ [](\A d \in DataIds : NoCompleteWhenShort(d))
    /\ [][\A d \in DataIds : IncompleteOrder(d)]_vars

\* A connection closed after 0 of MaxSize bytes: INCOMPLETE was sent and the
\* record is incomplete.
C15_Witness ==
    \E d \in DataIds :
        /\ dat[d].pc = "closed"
        /\ dat[d].received < dat[d].filesize
        /\ dat[d].sent = <<"READY", "INCOMPLETE">>
        /\ transfers[dat[d].transfer_id].status = "incomplete"

(* ----------------------- replies on the control channel ---------------- *)

\* The places of a control handler between a command and the send of its reply.
Answering == {"parsed", "locked", "reply"}

OneReplyEach(c) ==
    /\ ctl[c].replied <= ctl[c].commands
    /\ ctl[c].commands <= ctl[c].replied + 1
    /\ ctl[c].pc \in Answering <=> ctl[c].commands = ctl[c].replied + 1
    /\ ctl[c].pc = "reply" =>
           /\ ctl[c].reply.transfer_id = ctl[c].cmd.transfer_id
           /\ ctl[c].reply.status /= NoReply.status
    /\ ctl[c].pc = "closed" => ctl[c].replied = ctl[c].commands

RepliesInOrder(c) ==
    /\ ctl'[c].commands /= ctl[c].commands =>
           /\ ctl[c].pc = "recv"
           /\ ctl[c].replied = ctl[c].commands
           /\ ctl'[c].commands = ctl[c].commands + 1
           /\ ctl'[c].cmd \in Commands
    /\ ctl'[c].replied /= ctl[c].replied =>
           /\ ctl[c].pc = "reply"
           /\ ctl'[c].replied = ctl[c].replied + 1
           /\ ctl'[c].replied = ctl[c].commands
    /\ ctl[c].pc \in Answering /\ ctl'[c] /= ctl[c] =>
           /\ ctl'[c].pc \in Answering \ {"parsed"} \/ ctl'[c].replied = ctl[c].replied + 1
           /\ ctl'[c].pc \in Answering => ctl'[c].cmd = ctl[c].cmd
           /\ ctl[c].pc = "reply" => ctl'[c].replied = ctl[c].replied + 1

Channels == {"data", "control"}

\* A call of _connect_socket for channel ch has begun.
Called(ch) == cli.pc \notin {"off", "start"} /\ (ch = "data" \/ cli.channel = "control")

\* The call for channel ch is over with a return.
Returned(ch) ==
    \/ ch = "data" /\ cli.channel = "control"
    \/ ch = "control" /\ cli.pc = "returned"

\* The socket connect_to_server holds for channel ch.
SocketOf(ch) == IF ch = "data" THEN cli.data_socket ELSE cli.control_socket

\* The connection attempts in a log: each begins with one connect.
Attempts(log) == CountFrames(log, "connected") + CountFrames(log, "connect_failed")

\* The attempts in a log that failed, at the connect or at the TLS wrap.
FailedAttempts(log) ==
    CountFrames(log, "connect_failed") + CountFrames(log, "wrap_failed")
        + CountFrames(log, "wrap_reset")

\* The event with which an attempt succeeds.
Success == IF cli.ssl_enabled THEN "wrapped" ELSE "connected"

\* The exception an attempt's failure raises.
ExcOf(event) == IF event = "wrap_failed" THEN "ssl.SSLError" ELSE "socket.error"

BoundedDial(ch) ==
    LET log == cli.log[ch]
    IN  /\ Attempts(log) <= cli.retry_attempts
        /\ CountFrames(log, Success) <= 1
        /\ CountFrames(log, Success) = 1 =>
               /\ log[Len(log)] = Success
               /\ Returned(ch)
               /\ SocketOf(ch) /= NoSocket
        /\ Called(ch) /\ CountFrames(log, Success) = 0
               /\ FailedAttempts(log) = cli.retry_attempts /\ cli.retry_attempts > 0 =>
               /\ cli.channel = ch
               /\ cli.pc \in {"except", "raised"}
               /\ cli.exc = ExcOf(log[Len(log)])
        /\ cli.pc = "raised" /\ cli.channel = ch =>
               /\ CountFrames(log, Success) = 0
               /\ Attempts(log) = cli.retry_attempts
               /\ FailedAttempts(log) = cli.retry_attempts
               /\ cli.exc = ExcOf(log[Len(log)])

\* C17: _connect_socket makes at most retry_attempts attempts; an attempt that
\* succeeds is the last event of the call, which returns the connected socket;
\* when retry_attempts >= 1 attempts were made and all failed, the exception of
\* the last one is raised to the caller.
C17_BoundedDial == \A ch \in Channels : BoundedDial(ch)

\* With three attempts allowed, the data channel connected at its second attempt
\* and the control channel raised after three failures, the last one at the TLS
\* wrap.
C17_Witness ==
    /\ cli.pc = "raised"
    /\ cli.retry_attempts = 3
    /\ cli.channel = "control"
    /\ cli.data_socket = TlsSocket
    /\ Attempts(cli.log["data"]) = 2
    /\ Attempts(cli.log["control"]) = 3
    /\ cli.exc = "ssl.SSLError"

(* ----------------- properties of send_message / receive_message -------- *)

\* C18: a call of send_message or receive_message in which the socket fails with
\* a transport error ends with no exception: send_message returns True when
\* sock.sendall took the bytes of the message and False on a socket or TLS error;
\* receive_message returns the bytes sock.recv gave, and None when it gave none
\* (closed stream) or failed with a socket or TLS error.
C18_NoTransportException ==
    io.pc = "done" =>
        /\ io.outcome \in TransportFailures \cup {"sent", "data"} => io.raised = NoExc
        /\ io.op = "send" /\ io.outcome = "sent" =>
               io.returned = True /\ io.wire = AsBytes(io.message)
        /\ io.op = "send" /\ io.outcome \in TransportFailures =>
               io.returned = False /\ io.wire = <<>>
        /\ io.op = "receive" /\ io.outcome = "data" /\ io.wire /= <<>> =>
               io.returned = Bytes(io.wire)
        /\ io.op = "receive" /\ io.outcome = "data" /\ io.wire = <<>> =>
               io.returned = None
        /\ io.op = "receive" /\ io.outcome \in TransportFailures => io.returned = None

\* A send of a str beyond ASCII has failed in the TLS layer and returned False.
C18_Witness ==
    /\ io.pc = "done"
    /\ io.op = "send"
    /\ io.message = [type |-> "str", value |-> <<82, 233>>]
    /\ io.outcome = "ssl.SSLEOFError"
    /\ io.returned = False
    /\ io.raised = NoExc

\* A receive has failed on a reset connection and returned None.
C18_WitnessReceive ==
    /\ io.pc = "done"
    /\ io.op = "receive"
    /\ io.outcome = "ConnectionResetError"
    /\ io.returned = None

\* A str beyond ASCII went out as its UTF-8 bytes.
C18_WitnessSent ==
    /\ io.pc = "done"
    /\ io.op = "send"
    /\ io.message = [type |-> "str", value |-> <<82, 233>>]
    /\ io.wire = <<82, 195, 169>>
    /\ io.returned = True

\* An exception that is no transport failure leaves the call.
C18_WitnessPropagated == io.pc = "done" /\ io.raised = "TypeError"

(* -------------------- properties of failing connections ---------------- *)

\* Data connection d fails: the TLS handshake at accept, a first frame that is
\* missing or no JSON, or an exception in the handler (open raises).
DataFails(d) == dat[d].pc \in {"idle", "recv_meta", "open"} /\ dat'[d].pc = "closed"

\* Control connection c fails: the TLS handshake at accept, or the handler's loop
\* ends on a closed stream or an exception.
CtlFails(c) == ctl[c].pc \in {"idle", "recv"} /\ ctl'[c].pc = "closed"

\* The thread that holds the registry lock is inside a with block.
HolderInside ==
    /\ \A c \in CtlIds : lock = CtlThread(c) <=> ctl[c].pc = "locked"
    /\ \A d \in DataIds :
          lock = DataThread(d) <=>
              dat[d].pc \in {"check", "mark_received", "mark_decoded", "mark_incomplete"}

FailureIsLocal ==
    /\ \A d \in DataIds :
          DataFails(d) =>
              /\ running'
              /\ transfers' = transfers
              /\ lock' = lock
              /\ ctl' = ctl
              /\ \A o \in DataIds \ {d} : dat'[o] = dat[o]
              /\ dat'[d] = [dat[d] EXCEPT !.pc = "closed"]
    /\ \A c \in CtlIds :
          CtlFails(c) =>
              /\ running'
              /\ transfers' = transfers
              /\ lock' = lock
              /\ dat' = dat
              /\ \A o \in CtlIds \ {c} : ctl'[o] = ctl[o]
              /\ ctl'[c] = [ctl[c] EXCEPT !.pc = "closed"]

\* C19: a failure on one connection (a failed TLS handshake at accept, or an
\* exception that ends its handler) closes that connection and changes nothing
\* else: the accept loops go on (running stays true), the registry, the lock and
\* every other connection are as they were, and the lock is only ever held by a
\* thread inside a with block, so no closed connection keeps another waiting.
C19_FailureIsLocal == []HolderInside /\ [][FailureIsLocal]_vars

\* One data handler has ended on an exception after READY (open raised) while the
\* other is receiving chunks and the control handler is answering a command.
C19_Witness ==
    /\ running
    /\ \E d \in DataIds :
          /\ dat[d].pc = "closed"
          /\ dat[d].sent = <<"READY">>
          /\ \E o \in DataIds \ {d} : dat[o].pc = "loop" /\ dat[o].received > 0
    /\ \E c \in CtlIds : ctl[c].pc = "reply"

\* The events with which the TLS wrap of an attempt fails.
WrapFailures == {"wrap_failed", "wrap_reset"}

TlsOrNothing(ch) ==
    LET log == cli.log[ch]
    IN  /\ SocketOf(ch) /= PlainSocket
        /\ Returned(ch) =>
               \/ SocketOf(ch) = TlsSocket /\ log[Len(log)] = "wrapped"
               \/ SocketOf(ch) = NoSocket /\ cli.retry_attempts = 0
        /\ Called(ch) /\ log /= <<>> /\ log[Len(log)] \in WrapFailures
               /\ Attempts(log) = cli.retry_attempts =>
               /\ cli.channel = ch
               /\ cli.pc \in {"except", "raised"}
               /\ cli.exc = ExcOf(log[Len(log)])

\* C20: with SSL enabled, connect_to_server never holds or returns the plain TCP
\* socket of a channel: a socket it returns is the one wrap_socket made, after a
\* successful wrap; a wrap that fails on the last attempt ends in the raise of
\* its exception, not in a return.
C20_TlsOnly == cli.ssl_enabled => \A ch \in Channels : TlsOrNothing(ch)

\* With SSL enabled both channels came back wrapped, the control channel after a
\* TLS failure on its first attempt.
C20_Witness ==
    /\ cli.ssl_enabled
    /\ cli.pc = "returned"
    /\ cli.data_socket = TlsSocket
    /\ cli.control_socket = TlsSocket
    /\ cli.log["control"] = <<"connected", "wrap_failed", "connected", "wrapped">>

\* With SSL enabled the TLS wrap failed on the last attempt and the call raised.
C20_WitnessRaised ==
    /\ cli.ssl_enabled
    /\ cli.pc = "raised"
    /\ cli.exc = "ssl.SSLError"
    /\ cli.retry_attempts = 2
    /\ cli.log["data"] = <<"connected", "wrap_failed", "connected", "wrap_failed">>

\* Without SSL the sockets returned are the TCP sockets.
WitnessPlain ==
    /\ ~cli.ssl_enabled
    /\ cli.pc = "returned"
    /\ cli.data_socket = PlainSocket
    /\ cli.control_socket = PlainSocket

(* ------------------------ properties of the registry lock -------------- *)

\* The pcs of a data handler inside "with self.transfers_lock:".
DataWithPcs == {"check", "mark_received", "mark_decoded", "mark_incomplete"}

\* The handler threads that are inside a with block of the registry lock.
Inside ==
    {CtlThread(c) : c \in {x \in CtlIds : ctl[x].pc = "locked"}}
        \cup {DataThread(d) : d \in {x \in DataIds : dat[x].pc \in DataWithPcs}}

\* At most one handler is inside a registry access, and it is the lock's holder.
OneInside ==
    /\ Cardinality(Inside) <= 1
    /\ Inside = {lock} \ {Free}

\* Handler thread t takes a step.
Moves(t) ==
    \/ t[1] = "ctl" /\ t[2] \in CtlIds /\ ctl'[t[2]] /= ctl[t[2]]
    \/ t[1] = "data" /\ t[2] \in DataIds /\ dat'[t[2]] /= dat[t[2]]

\* The locals of a handler that hold what it read from the registry.
ReadOf(t) ==
    IF t[1] = "ctl"
    THEN <<ctl[t[2]].prior, ctl[t[2]].reply>>
    ELSE <<dat[t[2]].dest_path, dat[t[2]].filesize>>

ReadOfNext(t) ==
    IF t[1] = "ctl"
    THEN <<ctl'[t[2]].prior, ctl'[t[2]].reply>>
    ELSE <<dat'[t[2]].dest_path, dat'[t[2]].filesize>>

Threads == {CtlThread(c) : c \in CtlIds} \cup {DataThread(d) : d \in DataIds}

\* A step that writes the registry, or in which a running handler takes a value
\* from it into its locals, is a step of the thread that holds the lock.
AccessUnderLock ==
    /\ transfers' /= transfers => lock \in Threads /\ Moves(lock) /\ lock' = Free
    /\ \A t \in Threads :
          /\ Moves(t)
          /\ ReadOf(t) /= ReadOfNext(t)
          /\ ~(t[1] = "ctl" /\ ctl[t[2]].pc \in {"idle", "reply"})
          /\ ~(t[1] = "data" /\ dat[t[2]].pc = "idle")
          => lock = t

\* C21: every write of the registry, and every read of it into a handler's
\* locals, is a step of the one thread that holds self.transfers_lock; at most one
\* handler at a time is inside a with block of that lock.
C21_AccessUnderLock == []OneInside /\ [][AccessUnderLock]_vars

\* A data handler is inside the with block that writes 'received' while the
\* control handler and the other data handler wait to enter theirs.
C21_Witness ==
    /\ \E d \in DataIds :
          /\ lock = DataThread(d)
          /\ dat[d].pc = "mark_received"
          /\ \E o \in DataIds \ {d} : dat[o].pc = "meta"
    /\ \E c \in CtlIds : ctl[c].pc = "parsed"

(* ------------------ properties of the transfer state machine ----------- *)

\* Data handler d leaves the with block it entered from pc `from`.
Exits(d, from) == dat[d].pc = Enters(from) /\ dat'[d].pc /= dat[d].pc

\* The status the record of handler d's transfer has when d writes it.
Found(d) == transfers[dat[d].transfer_id].status

\* The statuses a write of the data handler may find, by the with block it is in.
WritesFollowMachine ==
    \A d \in DataIds :
        /\ Exits(d, "meta") /\ dat'[d].pc = "ready" => Found(d) = "prepared"
        /\ Exits(d, "got_all") => Found(d) = "receiving"
        /\ Exits(d, "short") => Found(d) = "receiving"
        /\ Exits(d, "decode_done") => Found(d) = "received"

\* C22: the data handler's status writes follow prepared -> receiving ->
\* received -> decoded | decode_failed, and receiving -> incomplete: the handshake
\* writes 'receiving' only over 'prepared', 'received' and 'incomplete' are
\* written only over 'receiving', 'decoded' and 'decode_failed' only over
\* 'received'.
C22_StateMachine == [][WritesFollowMachine]_vars

(* --------------------- properties of a cancel in flight ---------------- *)

\* The pcs of a data handler between its handshake and its last status write.
InFlightPcs ==
    {"ready", "open", "loop", "got_all", "mark_received", "decode", "decode_done",
     "mark_decoded", "short", "mark_incomplete"}

\* Data handler d is in flight on a record that a cancel has marked.
CancelledInFlight(d) ==
    /\ dat[d].pc \in InFlightPcs
    /\ Found(d) = "cancelled"

\* A handler in flight on a cancelled record can take its next step as on any
\* other: it sends READY, opens the file, reads the next chunk or ends the loop,
\* decodes, and enters its with blocks when the lock is free.
KeepsGoing ==
    \A d \in DataIds :
        CancelledInFlight(d) =>
            /\ dat[d].pc = "ready" => ENABLED DataSendReady(d)
            /\ dat[d].pc = "open" => ENABLED DataOpen(d)
            /\ dat[d].pc = "loop" /\ dat[d].received < dat[d].filesize =>
                   ENABLED DataRecvChunk(d) /\ ENABLED DataRecvEnd(d)
            /\ dat[d].pc = "loop" /\ dat[d].received >= dat[d].filesize =>
                   ENABLED DataLoopExit(d)
            /\ dat[d].pc = "decode" => ENABLED DataDecode(d)
            /\ dat[d].pc \in {"got_all", "decode_done", "short"} /\ lock = Free =>
                   ENABLED DataAcquire(d)

\* The step in which a control handler runs the with block of a cancel.
Cancels == \E c \in CtlIds : Handles(c, "cancel")

\* A cancel changes no data handler; a handler in flight on a cancelled record
\* writes its status over 'cancelled' as it would over 'receiving', and the reply
\* it goes on to send is the one of that status.
OverCancelled ==
    /\ Cancels => dat' = dat
    /\ \A d \in DataIds :
          CancelledInFlight(d) =>
              LET id == dat[d].transfer_id
              IN  /\ Exits(d, "got_all") =>
                      transfers'[id].status = "received" /\ dat'[d].pc = "decode"
                  /\ Exits(d, "decode_done") =>
                      /\ transfers'[id].status =
                             IF dat[d].decoded_file_path /= NoPath
                             THEN "decoded" ELSE "decode_failed"
                      /\ dat'[d].pc = "complete"
                  /\ Exits(d, "short") =>
                      transfers'[id].status = "incomplete" /\ dat'[d].pc = "incomplete"

\* C23: a cancel for an id whose data handler is receiving does not interrupt
\* the handler: the handler keeps taking its steps, writes received and then
\* decoded or decode_failed, or incomplete, over the cancelled status, and goes on
\* to send COMPLETE or INCOMPLETE.
C23_CancelInFlight == []KeepsGoing /\ [][OverCancelled]_vars

\* The cancel found the record 'receiving' and has not been answered yet; the
\* data handler has since read the whole file, overwritten 'cancelled' and sent
\* COMPLETE.
C23_Witness ==
    \E c \in CtlIds, d \in DataIds :
        /\ ctl[c].pc = "reply"
        /\ ctl[c].cmd.command = "cancel"
        /\ ctl[c].cmd.transfer_id = dat[d].transfer_id
        /\ ctl[c].prior = "receiving"
        /\ dat[d].pc = "closed"
        /\ dat[d].received = MaxSize
        /\ dat[d].sent = <<"READY", "COMPLETE">>
        /\ Found(d) \in {"decoded", "decode_failed"}

\* As above, for a short read: 'incomplete' over 'cancelled', INCOMPLETE sent.
C23_WitnessIncomplete ==
    \E c \in CtlIds, d \in DataIds :
        /\ ctl[c].pc = "reply"
        /\ ctl[c].cmd.command = "cancel"
        /\ ctl[c].cmd.transfer_id = dat[d].transfer_id
        /\ ctl[c].prior = "receiving"
        /\ dat[d].pc = "closed"
        /\ dat[d].sent = <<"READY", "INCOMPLETE">>
        /\ Found(d) = "incomplete"

(* -------------------- properties of the accept loops ------------------- *)

\* The pcs of an accept loop inside "with threading.Lock():".
InAppend(ch) == acc[ch].pc \in {"append", "exit"}

\* C24: the appends to self.connections are mutually exclusive: the data accept
\* loop and the control accept loop are never both inside the with block around
\* the append.
C24_AppendExclusive == ~(InAppend("data") /\ InAppend("control"))

\* Each loop inside the with block holds a lock object of its own.
BothInside ==
    /\ InAppend("data")
    /\ InAppend("control")
    /\ acc["data"].mutex /= acc["control"].mutex
    /\ {acc["data"].mutex, acc["control"].mutex} \subseteq held

(* ---------------------- properties of the registry's keys -------------- *)

\* The ids for which a prepare has been answered on a connection that is still
\* showing it.
AnsweredPrepares ==
    {ctl[c].cmd.transfer_id :
        c \in {x \in CtlIds : ctl[x].pc = "reply" /\ ctl[x].cmd.command = "prepare"}}

\* No step takes an id out of the registry, and only a prepare puts one in.
KeysGrow ==
    /\ DOMAIN transfers \subseteq DOMAIN transfers'
    /\ DOMAIN transfers' /= DOMAIN transfers =>
           \E c \in CtlIds :
               /\ Handles(c, "prepare")
               /\ DOMAIN transfers' = DOMAIN transfers \cup {ctl[c].cmd.transfer_id}

\* C25: a transfer record is never deleted: whatever the commands and the data
\* sessions, every step keeps the ids the registry has (only prepare adds one),
\* and an id whose prepare was run has a record.
C25_NeverDeleted == [](AnsweredPrepares \subseteq DOMAIN transfers) /\ [][KeysGrow]_vars

\* Both ids have records after a cancel of one and a finished data session,
\* with a failed decode, of the other.
C25_Witness ==
    /\ DOMAIN transfers = Ids
    /\ \E id \in Ids : transfers[id].status = "cancelled"
    /\ \E d \in DataIds :
          /\ dat[d].pc = "closed"
          /\ dat[d].sent = <<"READY", "COMPLETE">>
          /\ dat[d].transfer_id \in DOMAIN transfers
          /\ Found(d) = "decode_failed"

(* -------------------- properties of a stalled connection --------------- *)

\* The pcs at which a control handler waits for its peer: in receive_message or
\* in send_message.
CtlBlockingPcs == {"recv", "reply"}

\* The pcs at which a data handler waits for its peer or for the decode
\* subprocess: in receive_message, in send_message, in open, in subprocess.run.
DataBlockingPcs == {"recv_meta", "ready", "open", "loop", "decode", "complete", "incomplete"}

\* The pcs at which a data handler waits to enter a with block.
DataWaitingPcs == {"meta", "got_all", "decode_done", "short"}

\* A thread that runs is scheduled again: one that waits for the registry lock
\* enters when the lock stays free, and one inside a with block runs the block.
\* Nothing is assumed of the peers: no receive, send or decode need ever return.
Scheduling ==
    /\ \A c \in CtlIds :
          /\ WF_vars(CtlAcquire(c))
          /\ WF_vars(CtlPrepare(c) \/ CtlStatus(c) \/ CtlCancel(c))
    /\ \A d \in DataIds :
          /\ WF_vars(DataAcquire(d))
          /\ WF_vars(DataUnknownId(d) \/ DataHandshake(d) \/ DataMarkReceived(d)
                         \/ DataMarkDecoded(d) \/ DataMarkIncomplete(d))

\* The server under that scheduling.
StalledSpec == Init /\ [][Next]_vars /\ Scheduling

\* No handler holds the registry lock at a pc where it waits for a peer.
NoLockWhileBlocked ==
    /\ \A c \in CtlIds : ctl[c].pc \in CtlBlockingPcs => lock /= CtlThread(c)
    /\ \A d \in DataIds : dat[d].pc \in DataBlockingPcs => lock /= DataThread(d)

\* The accept loops take the next connection whatever the handlers are doing.
AcceptsGoOn ==
    /\ \A c \in CtlIds : running /\ ctl[c].pc = "idle" => ENABLED CtlAccept(c)
    /\ \A d \in DataIds : running /\ dat[d].pc = "idle" => ENABLED DataAccept(d)

\* No handler is waiting for the registry lock or holding it.
Quiet ==
    /\ lock = Free
    /\ \A c \in CtlIds : ctl[c].pc /= "parsed"
    /\ \A d \in DataIds : dat[d].pc \notin DataWaitingPcs

\* Every handler that waits for the lock gets through its with block, however
\* long the others stay blocked: again and again nobody is waiting or inside.
OthersProgress == []<>Quiet

\* C26: a handler that waits for its peer (for a command, for chunks, for a send
\* to drain) or for the decode holds no registry lock, so it blocks only itself:
\* with every other handler stalled for ever, each command read is answered, each
\* data handler waiting for the lock gets it, and the accept loops stay ready.
C26_BlockedAlone == [](NoLockWhileBlocked /\ AcceptsGoOn) /\ OthersProgress

\* One data handler has had READY out and no chunk since; meanwhile the other
\* data session ran to COMPLETE and the control handler answered two commands.
C26_Witness ==
    /\ \E d \in DataIds :
          /\ dat[d].pc = "loop"
          /\ dat[d].filesize = MaxSize
          /\ dat[d].received = 0
          /\ \E o \in DataIds \ {d} :
                dat[o].pc = "closed" /\ dat[o].sent = <<"READY", "COMPLETE">>
    /\ \E c \in CtlIds : ctl[c].replied >= 2 /\ ctl[c].pc = "recv"

(* ------------------------ properties of send_file ---------------------- *)

\* A send_file call on a file that exists has returned, and no step of it met a
\* transport failure.
Ran ==
    /\ snd.pc = "returned"
    /\ Exists(snd.file_path)
    /\ snd.exc \notin TransportFailures

\* The positions of the call's log at which it sent (dir "send") or received
\* (dir "recv") the frame on the channel.
Events(channel, dir, frame) ==
    {i \in 1 .. Len(snd.frames) :
        /\ snd.frames[i].channel = channel
        /\ snd.frames[i].dir = dir
        /\ snd.frames[i].frame = frame}

Before(earlier, later) == \A i \in later : \E j \in earlier : j < i

\* C27: the sending client follows the protocol order: prepare on the control
\* channel is the first thing it sends; the data channel's metadata frame goes
\* out only after the reply 'ready' came in, and a chunk only after READY; the
\* call returns True exactly when the last thing it received is COMPLETE on the
\* data channel.
C27_ProtocolOrder ==
    Ran =>
        /\ 1 \in Events("control", "send", "prepare")
        /\ Before(Events("control", "recv", "ready"), Events("data", "send", "metadata"))
        /\ Before(Events("data", "recv", "READY"), Events("data", "send", "chunk"))
        /\ snd.result = True <=> Len(snd.frames) \in Events("data", "recv", "COMPLETE")

RECURSIVE SumSizes(_, _)
SumSizes(frames, at) ==
    IF at = {} THEN 0
    ELSE LET i == CHOOSE x \in at : TRUE
         IN frames[i].size + SumSizes(frames, at \ {i})

\* C28: the chunks the client streams add up to the payload: the bytes it has
\* sent as chunks are as many as the filesize its prepare declared.
C28_ChunksCarryPayload ==
    Ran =>
        /\ Events("control", "send", "prepare") /= {}
        /\ \A p \in Events("control", "send", "prepare") :
              SumSizes(snd.frames, Events("data", "send", "chunk")) = snd.frames[p].size

\* C29: one send_file run against the server, with no transport failure and
\* nobody else using its id, ends with COMPLETE received and the result True.
C29_EndToEnd ==
    Ran =>
        /\ Events("data", "recv", "COMPLETE") /= {}
        /\ snd.result = True

\* What the call does on a file that exists: TypeError in the try block, False
\* returned, nothing sent.
ReturnsFalseUnsent ==
    Ran => snd.exc = "TypeError" /\ snd.result = False /\ snd.frames = <<>>

(* ----------------------- properties of the retry delay ----------------- *)

\* The events with which an attempt fails.
AttemptFailures == {"connect_failed"} \cup WrapFailures

\* In the log of channel ch, every failure in kinds that is followed by another
\* attempt is followed at once by the sleep of retry_delay.
SleepsAfter(ch, kinds) ==
    LET log == cli.log[ch]
    IN  \A i \in 1 .. Len(log) - 1 : log[i] \in kinds => log[i + 1] = "sleep"

\* C30: between two consecutive attempts of a _connect_socket call the dialer
\* sleeps retry_delay, whether the earlier attempt failed at the TCP connect or at
\* the TLS handshake.
C30_DelayBetweenAttempts == \A ch \in Channels : SleepsAfter(ch, AttemptFailures)

\* The sleep does follow a failure that raises a socket error, at the connect or
\* in the handshake.
SleepAfterSocketError ==
    \A ch \in Channels : SleepsAfter(ch, {"connect_failed", "wrap_reset"})

\* A second attempt right after a TLS failure, with no sleep between.
NoSleepAfterTlsFailure ==
    /\ cli.ssl_enabled
    /\ Len(cli.log["data"]) >= 3
    /\ cli.log["data"][2] = "wrap_failed"
    /\ cli.log["data"][3] \in {"connected", "connect_failed"}

(* --------------------------- properties of stop ------------------------ *)

\* C31: after stop() has returned, running is false, no listening socket is open
\* and no socket this ConnectionManager accepted is open, one accepted while stop
\* was running included.
C31_StopClosesAll ==
    stp.pc = "returned" => ~running /\ stp.listening = {} /\ stp.open = {}

\* What stop does achieve: running is false from its first statement on, and the
\* listening sockets are closed when it returns.
StopClosesListeners ==
    /\ stp.pc \in {"loop", "returned"} => ~running
    /\ stp.pc = "returned" => stp.listening = {}

\* stop has returned and a socket accepted while it ran is open and in
\* self.connections, which the loop of stop had left already.
OpenAfterStop ==
    /\ stp.pc = "returned"
    /\ \E k \in 1 .. Len(connections) : k >= stp.i /\ connections[k] \in stp.open

(* ---------------------- invalid control frames ------------------------- *)

\* The step in which control connection c receives a frame that is not JSON or
\* names no known command.
InvalidFrame(c) ==
    /\ ctl[c].pc = "recv"
    /\ ctl'[c].frames = ctl[c].frames + 1
    /\ ctl'[c].commands = ctl[c].commands

\* C32: a control frame that is not valid JSON or carries an unrecognised command
\* leaves the registry unchanged, and the handler closes that control
\* connection.
C32_InvalidFrameCloses ==
    [][\A c \in CtlIds :
          InvalidFrame(c) => transfers' = transfers /\ ctl'[c].pc = "closed"]_vars

\* Such a frame leaves the registry, the lock and every other connection as they
\* were.
InvalidFrameChangesNothing ==
    [][\A c \in CtlIds :
          InvalidFrame(c) =>
              /\ transfers' = transfers
              /\ lock' = lock
              /\ dat' = dat
              /\ \A o \in CtlIds \ {c} : ctl'[o] = ctl[o]]_vars

\* A connection that got an invalid frame and, after it, a reply to a command.
ServedAfterInvalidFrame ==
    \E c \in CtlIds :
        /\ ctl[c].frames > ctl[c].commands
        /\ ctl[c].pc = "recv"
        /\ ctl[c].replied = ctl[c].commands
        /\ ctl[c].replied > 0

(* ------------------------ the running total ---------------------------- *)

\* C33: the running total of a data handler never exceeds the declared size, and
\* a handler is on its way to mark the record incomplete only when fewer bytes
\* than declared arrived.
C33_ExactTotal ==
    \A d \in DataIds :
        /\ dat[d].received <= dat[d].filesize
        /\ dat[d].pc \in {"short", "mark_incomplete", "incomplete"} =>
              dat[d].received < dat[d].filesize

\* The test after the loop is exact: the handler marks the record received only
\* with received = filesize, and incomplete with any other total.
TotalDecidesOutcome ==
    \A d \in DataIds :
        /\ dat[d].pc \in {"got_all", "mark_received"} => dat[d].received = dat[d].filesize
        /\ dat[d].pc \in {"short", "mark_incomplete", "incomplete"} =>
              dat[d].received /= dat[d].filesize

\* INCOMPLETE was sent to a peer that delivered more bytes than it declared.
IncompleteOnSurplus ==
    \E d \in DataIds :
        /\ dat[d].received > dat[d].filesize
        /\ dat[d].pc = "closed"
        /\ dat[d].sent = <<"READY", "INCOMPLETE">>
        /\ transfers[dat[d].transfer_id].status = "incomplete"

(* ------------------- leaving the receiving status ---------------------- *)

\* The step in which data handler d, which has shaken hands, terminates.
EndsAfterHandshake(d) ==
    /\ dat[d].sent /= <<>>
    /\ dat[d].pc /= "closed"
    /\ dat'[d].pc = "closed"

\* C34: whenever a data handler terminates after its handshake, the status of
\* its record is no longer 'receiving' and COMPLETE or INCOMPLETE was sent.
C34_LeavesReceiving ==
    [][\A d \in DataIds :
          EndsAfterHandshake(d) =>
              /\ transfers'[dat[d].transfer_id].status /= "receiving"
              /\ \E k \in 1 .. Len(dat'[d].sent) :
                    dat'[d].sent[k] \in {"COMPLETE", "INCOMPLETE"}]_vars

\* A record left in 'receiving' for good: its only handler got READY out, failed
\* to open the destination and has terminated; no other handler names the id.
StuckReceiving ==
    \E d \in DataIds :
        /\ dat[d].pc = "closed"
        /\ dat[d].sent = <<"READY">>
        /\ transfers[dat[d].transfer_id].status = "receiving"
        /\ \A o \in DataIds \ {d} : dat[o].transfer_id /= dat[d].transfer_id

(* ------------------ one receiving handler per transfer ----------------- *)

\* The data handlers that are receiving for transfer id.
Receivers(id) == {d \in DataIds : dat[d].pc \in InFlightPcs /\ dat[d].transfer_id = id}

\* The statuses of a transfer that is being received or has finished.
Taken == {"receiving", "received", "decoded", "decode_failed", "incomplete"}

\* The step in which data handler d, inside the handshake block, finds its id
\* registered with a status of a transfer that is taken.
SecondHandshake(d) ==
    /\ dat[d].pc = "check"
    /\ dat[d].transfer_id \in DOMAIN transfers
    /\ transfers[dat[d].transfer_id].status \in Taken
    /\ dat'[d] /= dat[d]

\* C35: at most one data handler at a time is receiving for a transfer id; a
\* data connection naming an id whose transfer is being received or has finished
\* is not given READY and does not change the status of that record.
C35_OneReceiver ==
    /\ [](\A id \in Ids : Cardinality(Receivers(id)) <= 1)
    /\ [][\A d \in DataIds :
             SecondHandshake(d) =>
                 /\ dat'[d].pc \notin InFlightPcs
                 /\ transfers' = transfers]_vars

\* Two handlers are receiving for one id, and both were sent READY.
TwoReceivers ==
    \E id \in Ids :
        \E d, o \in Receivers(id) :
            d /= o /\ dat[d].sent = <<"READY">> /\ dat[o].sent = <<"READY">>

\* A second connection took a finished record back to 'receiving'.
FinishedReopened ==
    \E d, o \in DataIds :
        /\ d /= o
        /\ dat[d].transfer_id = dat[o].transfer_id
        /\ dat[d].pc = "closed"
        /\ dat[d].sent = <<"READY", "COMPLETE">>
        /\ dat[o].pc = "open"
        /\ transfers[dat[o].transfer_id].status = "receiving"

(* -------------------- cancel of an id without a record ----------------- *)

CancelOfNothing(c) ==
    LET id == ctl[c].cmd.transfer_id
    IN  /\ Handles(c, "cancel") /\ id \notin DOMAIN transfers =>
            /\ transfers' = transfers
            /\ ctl'[c].reply = [status |-> "cancelled", transfer_id |-> id]
            /\ StatusOf(transfers', id) = "unknown"
        /\ Handles(c, "status") /\ id \notin DOMAIN transfers =>
            ctl'[c].reply = [status |-> "unknown", transfer_id |-> id]

\* C36: cancel(id) for an id that has no record leaves the registry unchanged, so
\* that no record is created, and still replies {status: cancelled, transfer_id:
\* id}; a status(id) that runs on the registry the cancel left replies "unknown".
C36_CancelOfNothing == [][\A c \in CtlIds : CancelOfNothing(c)]_vars

\* A cancel for an id without a record has built its acknowledgment, and the id
\* has no record still, while another id has one.
C36_Witness ==
    \E c \in CtlIds :
        /\ ctl[c].pc = "reply"
        /\ ctl[c].cmd.command = "cancel"
        /\ ctl[c].prior = "unknown"
        /\ ctl[c].reply = [status |-> "cancelled", transfer_id |-> ctl[c].cmd.transfer_id]
        /\ ctl[c].cmd.transfer_id \notin DOMAIN transfers
        /\ transfers /= <<>>

\* On a connection that was answered before, a status for an id without a record
\* replies "unknown".
C36_WitnessStatus ==
    \E c \in CtlIds :
        /\ ctl[c].pc = "reply"
        /\ ctl[c].replied > 0
        /\ ctl[c].cmd.command = "status"
        /\ ctl[c].reply = [status |-> "unknown", transfer_id |-> ctl[c].cmd.transfer_id]

(* ------------------------- no absent socket ---------------------------- *)

\* C37: for every retry_attempts, 0 included, a call of _connect_socket that is
\* over has returned a socket or raised, never None, and connect_to_server
\* returns no absent socket to its caller.
C37_NeverNone ==
    /\ \A ch \in Channels : Returned(ch) => SocketOf(ch) /= NoSocket
    /\ cli.pc = "returned" =>
           cli.data_socket /= NoSocket /\ cli.control_socket /= NoSocket

\* With one attempt or more allowed, a call that returns, returns a socket.
SocketWithAttempts ==
    cli.retry_attempts > 0 => \A ch \in Channels : Returned(ch) => SocketOf(ch) /= NoSocket

\* connect_to_server has returned (None, None) without one connection attempt
\* and without raising.
ReturnedNothing ==
    /\ cli.pc = "returned"
    /\ cli.retry_attempts = 0
    /\ cli.data_socket = NoSocket
    /\ cli.control_socket = NoSocket
    /\ cli.log = NoLog
    /\ cli.exc = NoExc

(* ------------------------- tree construction --------------------------- *)

\* build_huffman_tree runs in the thread that called it: the next pass of its
\* loop, and its return, are taken when they can be. This is weak fairness of
\* MergePass and of BuildCodes, with their guards written out for ENABLED.
EncoderRuns ==
    /\ []<>(~(cpc = "merge" /\ Len(enc.pq) > 1)) \/ []<><<MergePass>>_vars
    /\ []<>(~(cpc = "merge" /\ Len(enc.pq) <= 1)) \/ []<><<BuildCodes>>_vars

TreeSpec == CodecStart /\ [][CodecNext]_vars /\ EncoderRuns

\* The arena indexes a queue holds.
Queued(pq) == {pq[i] : i \in 1 .. Len(pq)}

\* The chars of the leaves under node n, left to right.
RECURSIVE LeafChars(_, _)
LeafChars(nodes, n) ==
    IF n = NoNode THEN <<>>
    ELSE IF nodes[n].left = NoNode /\ nodes[n].right = NoNode
         THEN <<nodes[n].char>>
         ELSE LeafChars(nodes, nodes[n].left) \o LeafChars(nodes, nodes[n].right)

\* A pass of the loop takes the two nodes of lowest frequency off the queue and
\* puts one new node on it, their parent, whose frequency is their sum.
PassMerges ==
    cpc = "merge" /\ enc'.pq /= enc.pq /\ enc.pq /= <<>> =>
        LET removed == Queued(enc.pq) \ Queued(enc'.pq)
            kept == Queued(enc.pq) \cap Queued(enc'.pq)
            new == Len(enc'.nodes)
        IN  /\ Len(enc'.pq) = Len(enc.pq) - 1
            /\ Cardinality(removed) = 2
            /\ \A r \in removed : \A k \in kept : enc.nodes[r].freq <= enc.nodes[k].freq
            /\ Queued(enc'.pq) = kept \cup {new}
            /\ new = Len(enc.nodes) + 1
            /\ {enc'.nodes[new].left, enc'.nodes[new].right} = removed
            /\ enc'.nodes[new].freq =
                   enc.nodes[enc'.nodes[new].left].freq
                       + enc.nodes[enc'.nodes[new].right].freq
            /\ SubSeq(enc'.nodes, 1, Len(enc.nodes)) = enc.nodes

\* The tree build_huffman_tree returns for a non-empty input: one leaf for each
\* distinct symbol under the root, and the input's length as the root's frequency.
TreeBuilt ==
    cpc = "codes" =>
        LET chars == LeafChars(enc.nodes, enc.root)
        IN  /\ enc.root /= NoNode
            /\ Len(enc.pq) = 1
            /\ Len(chars) = Cardinality(DistinctSymbols(data))
            /\ {chars[i] : i \in 1 .. Len(chars)} = DistinctSymbols(data)
            /\ enc.nodes[enc.root].freq = Len(data)

\* C38: tree construction terminates for every non-empty input; each pass of the
\* loop removes the two lowest-frequency nodes and inserts one node whose
\* frequency is their sum, so that the queue shrinks by one per pass; the final
\* tree has exactly one leaf per distinct input symbol, reachable from the root,
\* and the root's frequency equals the input length.
C38_TreeConstruction ==
    /\ [][PassMerges]_vars
    /\ []TreeBuilt
    /\ cpc = "merge" ~> cpc = "codes"

\* A tree of every symbol is built, from an input of full length, by the most
\* passes.
C38_Witness ==
    /\ cpc = "codes"
    /\ Len(data) = MaxLen
    /\ Cardinality(DistinctSymbols(data)) = NumSymbols
    /\ Len(enc.nodes) = 2 * NumSymbols - 1

\* The tree of a one-symbol input: the root is its only leaf, no pass was taken.
C38_WitnessOneSymbol ==
    /\ cpc = "codes"
    /\ Len(data) > 1
    /\ Len(enc.nodes) = 1
    /\ enc.root = 1

====
